---- MODULE Spec2Model ----
(***************************************************************************)
(* Euclid image cutout service.                                            *)
(*                                                                         *)
(* Part 1 (specification Spec): the task registry shared by                *)
(* TaskProcessor (create_task, cancel_task) and the TaskExecutor threads   *)
(* (execute and the steps it calls), src/euclid_service/core.              *)
(***************************************************************************)
EXTENDS Integers, Sequences, FiniteSets, TLC

\* ------------------------------------------------------------------ bounds
\* number of tasks create_task may create in one run of the model
NTasks == 2
\* limits.max_catalog_rows (10000 in the configuration), scaled down
max_catalog_rows == 2

\* longest catalog given to process_catalog
MaxRows == 2

VARIABLES
    \* ---- the task registry (task_processor.py, task_executor.py)
    tasks,        \* the shared tasks dict: task id -> task entry
    pc,           \* position of each task's executor thread
    xstats,       \* TaskExecutor.stats of each executor (self.stats)
    zipOnDisk,    \* os.path.exists(permanent_zip_path), per task id
    cancelled_ok, \* ids for which cancel_task has returned True
    xcols,        \* catalog.colnames of each executor, {} before the catalog is read
    xconfig,      \* self.config of each executor: ra_col and dec_col
    wlog,         \* the writes made to data reachable from the registry:
                  \* <<task id, key, tasks_lock held>>
    \* ---- one run of process_catalog (euclid_cutout_remix.py)
    mer,          \* the MER tree: tile id -> files of the tile's directories
    catalog,      \* the catalog handed to process_catalog
    bcfg,         \* the parameters of the call
    bpc,          \* "idle", "running", "returned" or "raised"
    pending,      \* indices of the rows whose result is not yet collected
    results,      \* row index -> what its worker returned
    written,      \* <<row index, file type>> of every file save_cutouts wrote
    bstats,       \* stats: file type -> success, failed, errors
    outFiles,     \* output_dir: <<file type, obj_id>> -> the file written
    \* ---- the legacy service (legacy/Euclid_flash_app.py): process_task
    lcache,       \* CACHE_DIR: cache key -> [readable] of the files in it
    pcache,       \* PERMANENT_DOWNLOAD_DIR/<band>: file name -> artifact
    pwrites,      \* log of the copies into pcache: [task, row, ft, name]
    ltasks,       \* the tasks dict of the legacy service: id -> entry
    lpc,          \* position of each process_task thread
    lcatalog,     \* the catalog of each submitted task
    lscan,        \* sources_to_process, cached_sources_info,
                  \* permanent_cached_files of each task
    lstats,       \* the stats dict of each task
    lres,         \* what process_catalog's workers returned, per task and row
    ltemp,        \* temp_process_dir: <<file type, obj_id>> -> artifact
    lpos,         \* the copy loop: row, the matching files left, the check
    ldelivered,   \* permanent_task_dir (the zip): file name -> artifact
    lprior,       \* the tasks that had completed when the task started
    lallperm,     \* at the scan every requested file was in pcache
    \* ---- one run of process_catalog_by_tile (euclid_cutout_remix.py)
    tcatalog,     \* the catalog handed to process_catalog_by_tile
    tcfg,         \* the parameters of the call
    tpc,          \* "idle", "grouped" or "returned"
    tile_groups,  \* tile_groups: tile id (or None) -> the row indices
    tgdone,       \* the keys of tile_groups that have been worked on
    processed_count, \* processed_count of process_catalog_by_tile
    tstats,       \* stats: file type -> success, failed, total
    tprogress,    \* every value written to tasks[task_id]['progress']
    tile_files_cache, \* config['tile_files_cache'] of the config dict of
                  \* process_catalog_by_tile: << >> while the key is absent
    \* ---- one call of query_tile_id (euclid_cutout_remix.py)
    qindex,       \* the rows of the tile index file, in file order
    qpos,         \* the position asked for
    qres,         \* "pending", or <<what the call returned>>
    \* ---- the progress of one process_task (legacy/Euclid_flash_app.py)
    pn,           \* len(catalog)
    pk,           \* len(config['file_types'])
    ppc,          \* where process_task is
    pidx,         \* the loop index: the row, or the (row, file type) number
    pcount,       \* processed_count of the copy loop
    pvalue,       \* tasks[task_id]['progress'], NoProgress while absent
    pflag,        \* files_processed_for_target of the copy loop
    pfailed,      \* len(stats['failed_targets'])
    \* ---- one call of a function that keeps no state
    call_args,    \* the arguments of the call
    call_ret      \* "pending", or <<what the call returned>>

regVars == <<tasks, pc, xstats, zipOnDisk, cancelled_ok, xcols, xconfig, wlog>>
batVars == <<mer, catalog, bcfg, bpc, pending, results, written, bstats, outFiles>>

legVars == <<lcache, pcache, pwrites, ltasks, lpc, lcatalog, lscan, lstats, lres,
             ltemp, lpos, ldelivered, lprior, lallperm>>

tilVars == <<tcatalog, tcfg, tpc, tile_groups, tgdone, processed_count, tstats, tprogress,
             tile_files_cache,
             qindex, qpos, qres>>

proVars == <<pn, pk, ppc, pidx, pcount, pvalue, pflag, pfailed>>

callVars == <<call_args, call_ret>>

vars == <<regVars, batVars, legVars, tilVars, proVars, callVars>>

TaskIds == 1..NTasks

\* TaskStatus, models/task.py
TaskStatus == {"queued", "processing", "completed", "failed", "cancelled"}

\* "no value given" for the optional arguments of _update_status
NoProgress == -1
NoMessage == ""

\* TaskExecutor.__init__: self.stats
InitialStats ==
    [total_sources |-> 0, cached_sources |-> 0, new_sources |-> 0,
     errors |-> 0, permanent_cached |-> 0, failed_targets |-> << >>,
     from_cache |-> FALSE]

\* stats published by _check_cached_result
CachedResultStats ==
    [total_sources |-> 0, cached_sources |-> 0, new_sources |-> 0,
     errors |-> 0, permanent_cached |-> 0, failed_targets |-> << >>,
     from_cache |-> TRUE]

\* the entry create_task puts into the registry; the optional keys
\* start_time, end_time, zip_path, stats are absent (FALSE / << >>)
NewTaskEntry ==
    [status |-> "pending", progress |-> 0, message |-> "created",
     start_time |-> FALSE, end_time |-> FALSE, zip_path |-> FALSE,
     stats |-> << >>]
\* _update_status stamping end_time for a completed task only
UpdateStatus_end_time_on_completed(entry, status, progress, message, stats) ==
    [entry EXCEPT
        !.status = status,
        !.progress = IF progress # NoProgress THEN progress ELSE @,
        !.message = IF message # NoMessage THEN message ELSE @,
        !.start_time = IF status = "processing" THEN TRUE ELSE @,
        !.end_time = IF status = "completed" THEN TRUE ELSE @,
        !.stats = IF status \in {"completed", "failed"} THEN <<stats>> ELSE @]

\* TaskExecutor._update_status, the body run under tasks_lock
UpdateStatus(entry, status, progress, message, stats) ==
    [entry EXCEPT
        !.status = status,
        !.progress = IF progress # NoProgress THEN progress ELSE @,
        !.message = IF message # NoMessage THEN message ELSE @,
        !.start_time = IF status = "processing" THEN TRUE ELSE @,
        !.end_time = IF status \in {"completed", "failed"} THEN TRUE ELSE @,
        !.stats = IF status \in {"completed", "failed"} THEN <<stats>> ELSE @]

\* the log of the writes after task t's keys were written, with tasks_lock
\* held (the write stands in a "with self.tasks_lock" block) or not
Logged(t, keys, locked) == wlog \cup { <<t, k, locked>> : k \in keys }

\* TaskProcessor.create_task: a fresh uuid, the entry, and the executor thread
create_task ==
    /\ Cardinality(DOMAIN tasks) < NTasks
    /\ LET id == Cardinality(DOMAIN tasks) + 1 IN
        /\ tasks' = tasks @@ (id :> NewTaskEntry)
        /\ pc' = [pc EXCEPT ![id] = "start"]
    /\ wlog' = Logged(Cardinality(DOMAIN tasks) + 1, {"entry"}, TRUE)
    /\ UNCHANGED <<xstats, zipOnDisk, cancelled_ok, xcols, xconfig>>
\* cancel_task closing the entry with an end_time
cancel_task_stamping_end_time(id) ==
    /\ id \in DOMAIN tasks
    /\ tasks[id].status \notin {"completed", "failed"}
    /\ tasks' = [tasks EXCEPT ![id].status = "cancelled",
                              ![id].message = "cancelled",
                              ![id].end_time = TRUE]
    /\ cancelled_ok' = cancelled_ok \cup {id}
    /\ wlog' = Logged(id, {"status", "message"}, TRUE)
    /\ UNCHANGED <<pc, xstats, zipOnDisk, xcols, xconfig>>

\* TaskProcessor.cancel_task, for any id a caller may pass
cancel_task(id) ==
    /\ id \in DOMAIN tasks
    /\ tasks[id].status \notin {"completed", "failed"}
    /\ tasks' = [tasks EXCEPT ![id].status = "cancelled",
                              ![id].message = "cancelled"]
    /\ cancelled_ok' = cancelled_ok \cup {id}
    /\ wlog' = Logged(id, {"status", "message"}, TRUE)
    /\ UNCHANGED <<pc, xstats, zipOnDisk, xcols, xconfig>>

\* cancel_task returning False: unknown id, or the task is completed or failed
cancel_task_refused(id) ==
    /\ IF id \in DOMAIN tasks
       THEN tasks[id].status \in {"completed", "failed"}
       ELSE TRUE
    /\ UNCHANGED regVars

\* execute, step 1: _update_status('processing', progress=0)
exec_start(t) ==
    /\ pc[t] = "start"
    /\ tasks' = [tasks EXCEPT ![t] =
                    UpdateStatus(@, "processing", 0, NoMessage, xstats[t])]
    /\ pc' = [pc EXCEPT ![t] = "check_cached"]
    /\ wlog' = Logged(t, {"status", "progress", "start_time"}, TRUE)
    /\ UNCHANGED <<xstats, zipOnDisk, cancelled_ok, xcols, xconfig>>

\* execute, step 2: _check_cached_result finds the task's zip
check_cached_result_hit(t) ==
    /\ pc[t] = "check_cached"
    /\ zipOnDisk[t]
    /\ tasks' = [tasks EXCEPT ![t] =
                    [@ EXCEPT !.status = "completed", !.end_time = TRUE,
                              !.zip_path = TRUE, !.message = "cached result",
                              !.progress = 100,
                              !.stats = <<CachedResultStats>>]]
    /\ pc' = [pc EXCEPT ![t] = "done"]
    /\ wlog' = Logged(t, {"status", "end_time", "zip_path", "message", "progress", "stats"}, TRUE)
    /\ UNCHANGED <<xstats, zipOnDisk, cancelled_ok, xcols, xconfig>>

\* execute, step 2: _check_cached_result finds nothing
check_cached_result_miss(t) ==
    /\ pc[t] = "check_cached"
    /\ ~zipOnDisk[t]
    /\ pc' = [pc EXCEPT ![t] = "load"]
    /\ UNCHANGED <<tasks, xstats, zipOnDisk, cancelled_ok, xcols, xconfig, wlog>>

\* _detect_column returning the last alias that is a column
DetectColumn_last_alias(available_cols, preferred, aliases) ==
    IF preferred \in available_cols THEN preferred
    ELSE IF \E i \in 1..Len(aliases) : aliases[i] \in available_cols
         THEN aliases[CHOOSE i \in 1..Len(aliases) :
                        /\ aliases[i] \in available_cols
                        /\ \A j \in (i+1)..Len(aliases) : aliases[j] \notin available_cols]
         ELSE "raise ValueError"

\* _detect_column
DetectColumn(available_cols, preferred, aliases) ==
    IF preferred \in available_cols THEN preferred
    ELSE IF \E i \in 1..Len(aliases) : aliases[i] \in available_cols
         THEN aliases[CHOOSE i \in 1..Len(aliases) :
                        /\ aliases[i] \in available_cols
                        /\ \A j \in 1..(i-1) : aliases[j] \notin available_cols]
         ELSE "raise ValueError"

\* the RA aliases of _load_and_validate_catalog
RaAliases ==
    <<"TARGET_RA", "RA_1", "RA_2", "ra", "Ra", "RightAscension", "RIGHT_ASCENSION">>

\* the DEC aliases of _load_and_validate_catalog
DecAliases ==
    <<"TARGET_DEC", "DEC_1", "DEC_2", "dec", "Dec", "Declination", "DECLINATION">>

\* the column sets of the catalogs used as inputs
ColumnSets == {{"RA", "DEC"}, {"ra", "Dec"}, {"X", "DEC"}, {"RA_1", "Y"},
               {"Ra", "RA_2", "ra", "DECLINATION", "dec"}}

KeptRows_without_cap(n) == n

\* catalog[:max_catalog_rows]: the number of rows kept out of n
KeptRows(n) == IF n > max_catalog_rows THEN max_catalog_rows ELSE n

\* execute, steps 3-4: _create_directories and _load_and_validate_catalog.
\* n is the number of rows of the catalog file, cols its columns.
load_and_validate_catalog(t, n, cols) ==
    /\ pc[t] = "load"
    /\ LET kept == KeptRows(n)
           ra == DetectColumn(cols, xconfig[t].ra_col, RaAliases)
           dec == DetectColumn(cols, xconfig[t].dec_col, DecAliases)
       IN
        /\ tasks' = IF n > max_catalog_rows
                    THEN [tasks EXCEPT ![t] =
                            UpdateStatus(@, "processing", NoProgress,
                                         "truncated", xstats[t])]
                    ELSE tasks
        /\ xcols' = [xcols EXCEPT ![t] = cols]
        /\ wlog' = wlog
                    \cup (IF n > max_catalog_rows
                          THEN {<<t, "status", TRUE>>, <<t, "message", TRUE>>} ELSE {})
                    \cup (IF ra # "raise ValueError"
                          THEN {<<t, "config.ra_col", FALSE>>} ELSE {})
                    \cup (IF ra # "raise ValueError" /\ dec # "raise ValueError"
                          THEN {<<t, "config.dec_col", FALSE>>} ELSE {})
        /\ IF ra = "raise ValueError"
           THEN /\ pc' = [pc EXCEPT ![t] = "except"]
                /\ UNCHANGED <<xstats, xconfig>>
           ELSE IF dec = "raise ValueError"
           THEN /\ pc' = [pc EXCEPT ![t] = "except"]
                /\ xconfig' = [xconfig EXCEPT ![t].ra_col = ra]
                /\ UNCHANGED xstats
           ELSE /\ pc' = [pc EXCEPT ![t] = "process"]
                /\ xconfig' = [xconfig EXCEPT ![t].ra_col = ra, ![t].dec_col = dec]
                /\ xstats' = [xstats EXCEPT ![t].total_sources = kept]
    /\ UNCHANGED <<zipOnDisk, cancelled_ok>>

\* execute, steps 3-4 raising: makedirs or Table.read fails
load_raises(t) ==
    /\ pc[t] = "load"
    /\ pc' = [pc EXCEPT ![t] = "except"]
    /\ UNCHANGED <<tasks, xstats, zipOnDisk, cancelled_ok, xcols, xconfig, wlog>>

\* dict.get(key, default)
DictGet(d, key, default) == IF key \in DOMAIN d THEN d[key] ELSE default

\* execute, steps 5-6: _prepare_sources hands the whole catalog on; an empty
\* catalog skips _process_new_sources
process_skipped(t) ==
    /\ pc[t] = "process"
    /\ xstats[t].total_sources = 0
    /\ pc' = [pc EXCEPT ![t] = "package"]
    /\ UNCHANGED <<tasks, xstats, zipOnDisk, cancelled_ok, xcols, xconfig, wlog>>

\* execute, step 6: _process_new_sources after process_catalog has returned
\* process_stats
process_new_sources(t, process_stats) ==
    /\ pc[t] = "process"
    /\ xstats[t].total_sources > 0
    /\ xstats' = [xstats EXCEPT
                    ![t].new_sources = DictGet(process_stats, "success", 0),
                    ![t].errors = DictGet(process_stats, "error", 0)]
    /\ pc' = [pc EXCEPT ![t] = "package"]
    /\ UNCHANGED <<tasks, zipOnDisk, cancelled_ok, xcols, xconfig, wlog>>

\* execute, step 6 raising: process_catalog raises
process_raises(t) ==
    /\ pc[t] = "process"
    /\ xstats[t].total_sources > 0
    /\ pc' = [pc EXCEPT ![t] = "except"]
    /\ UNCHANGED <<tasks, xstats, zipOnDisk, cancelled_ok, xcols, xconfig, wlog>>

\* execute, step 8: _package_results writes the zip and publishes zip_path
package_results(t) ==
    /\ pc[t] = "package"
    /\ zipOnDisk' = [zipOnDisk EXCEPT ![t] = TRUE]
    /\ tasks' = [tasks EXCEPT ![t].zip_path = TRUE]
    /\ pc' = [pc EXCEPT ![t] = "complete"]
    /\ wlog' = Logged(t, {"zip_path"}, TRUE)
    /\ UNCHANGED <<xstats, cancelled_ok, xcols, xconfig>>

\* execute, step 8 raising: the zip cannot be written
package_raises(t) ==
    /\ pc[t] = "package"
    /\ pc' = [pc EXCEPT ![t] = "except"]
    /\ UNCHANGED <<tasks, xstats, zipOnDisk, cancelled_ok, xcols, xconfig, wlog>>

\* execute, steps 9-10: _cleanup, then _update_status('completed', progress=100)
exec_complete(t) ==
    /\ pc[t] = "complete"
    /\ tasks' = [tasks EXCEPT ![t] =
                    UpdateStatus(@, "completed", 100, NoMessage, xstats[t])]
    /\ pc' = [pc EXCEPT ![t] = "done"]
    /\ wlog' = Logged(t, {"status", "progress", "end_time", "stats"}, TRUE)
    /\ UNCHANGED <<xstats, zipOnDisk, cancelled_ok, xcols, xconfig>>
\* execute with an except branch that only logs the exception
exec_failed_only_logged(t) ==
    /\ pc[t] = "except"
    /\ pc' = [pc EXCEPT ![t] = "done"]
    /\ UNCHANGED <<tasks, xstats, zipOnDisk, cancelled_ok, xcols, xconfig, wlog>>

\* execute, the except branch: _update_status('failed', message=...)
exec_failed(t) ==
    /\ pc[t] = "except"
    /\ tasks' = [tasks EXCEPT ![t] =
                    UpdateStatus(@, "failed", NoProgress, "failed", xstats[t])]
    /\ pc' = [pc EXCEPT ![t] = "done"]
    /\ wlog' = Logged(t, {"status", "message", "end_time", "stats"}, TRUE)
    /\ UNCHANGED <<xstats, zipOnDisk, cancelled_ok, xcols, xconfig>>

(***************************************************************************)
(* Part 2: process_catalog and what it calls, euclid_cutout_remix.py.      *)
(* Sky positions are [ra, dec] in units of the lookup tolerance (0.01      *)
(* degree); the model's positions lie on the equator.  An object id is the *)
(* sequence of its characters; a masked id is the empty sequence.          *)
(***************************************************************************)
Masked == << >>

Range(seq) == { seq[i] : i \in 1..Len(seq) }

\* the tile index file: one row per tile
TileIndex ==
    << [TILE_ID |-> "T1", RA_MIN |-> 0, RA_MAX |-> 2, DEC_MIN |-> -1, DEC_MAX |-> 1,
        RA_CENTER |-> 1, DEC_CENTER |-> 0],
       [TILE_ID |-> "T2", RA_MIN |-> 4, RA_MAX |-> 6, DEC_MIN |-> -1, DEC_MAX |-> 1,
        RA_CENTER |-> 5, DEC_CENTER |-> 0] >>

\* query_tile_id's default tolerance, in the model's unit
tolerance == 1

\* the '' that process_catalog stores for a row without tile
NoTile == ""

\* SkyCoord.separation, as far as it orders the candidates: on the equator
\* and over these distances it grows with the squared coordinate distance
Separation(ra, dec, tile) ==
    (ra - tile.RA_CENTER) * (ra - tile.RA_CENTER)
        + (dec - tile.DEC_CENTER) * (dec - tile.DEC_CENTER)

\* query_tile_id: the mask, then np.argmin over the matched rows
query_tile_id(ra, dec, tile_table) ==
    LET matched == SelectSeq(tile_table, LAMBDA t :
                        /\ t.RA_MIN - tolerance <= ra
                        /\ ra <= t.RA_MAX + tolerance
                        /\ t.DEC_MIN - tolerance <= dec
                        /\ dec <= t.DEC_MAX + tolerance)
    IN  IF Len(matched) = 0 THEN NoTile
        ELSE IF Len(matched) = 1 THEN matched[1].TILE_ID
        ELSE LET nearest_idx == CHOOSE i \in 1..Len(matched) :
                    /\ \A j \in 1..Len(matched) :
                          Separation(ra, dec, matched[i]) <= Separation(ra, dec, matched[j])
                    /\ \A j \in 1..(i-1) :
                          Separation(ra, dec, matched[j]) > Separation(ra, dec, matched[i])
             IN  matched[nearest_idx].TILE_ID

\* _get_file_pattern
GetFilePattern(file_type) ==
    CASE file_type = "BGSUB" -> "BGSUB-MOSAIC"
      [] file_type = "BGMOD" -> "BGMOD"
      [] file_type = "FLAG" -> "MOSAIC"
      [] file_type = "RMS" -> "MOSAIC"
      [] file_type = "CATALOG-PSF" -> "CATALOG-PSF"
      [] OTHER -> file_type

\* A file of a tile directory: the instrument directory it lies in, the
\* product tag and the instrument/band tokens of its name
\* (EUC_MER_BGSUB-MOSAIC-NIR-Y_TILE..., EUC_MER_MOSAIC-NIR-Y-RMS_TILE...),
\* and what a cutout of its pixels gives: "ok", "nan" (cut, but with NaN
\* values) or "bad" (the cutout fails).
MerFile(dir, tag, tokens, q) == [dir |-> dir, tag |-> tag, tokens |-> tokens, q |-> q]

\* 'EUC_MER_<pattern>' in f: the product tag of the name starts the pattern
NameHasPattern(file, file_type) ==
    GetFilePattern(file.tag) = GetFilePattern(file_type)

\* _parse_filename: the instrument/band tokens left after stripping the
\* product pattern; for FLAG and RMS the suffix '-<file_type>' is cut off, so
\* the tag of the other MOSAIC product stays as a last token
ParseFilename(file, file_type) ==
    IF file_type \in {"FLAG", "RMS"} /\ file.tag # file_type
    THEN file.tokens \o <<file.tag>>
    ELSE file.tokens

\* find_files without the test of the instrument directory's name
find_files_any_instrument(tile_id, file_type, instruments, bands) ==
    IF tile_id \notin DOMAIN mer THEN {}
    ELSE { [key |-> <<f.dir, ParseFilename(f, file_type)>>, file |-> f] :
             f \in { g \in mer[tile_id] :
                       /\ NameHasPattern(g, file_type)
                       /\ (bands = {} \/ ParseFilename(g, file_type) \in bands) } }

\* find_files: the keys '<instrument_dir>_<full band>' found for a tile and
\* a file type, each with its file.  bands = {} stands for None.
find_files(tile_id, file_type, instruments, bands) ==
    IF tile_id \notin DOMAIN mer THEN {}
    ELSE { [key |-> <<f.dir, ParseFilename(f, file_type)>>, file |-> f] :
             f \in { g \in mer[tile_id] :
                       /\ g.dir \in instruments
                       /\ NameHasPattern(g, file_type)
                       /\ (bands = {} \/ ParseFilename(g, file_type) \in bands) } }

\* cutout_image / cutout_psf on a file: success and contains_nan
CutoutResult(file) ==
    [success |-> file.q # "bad", contains_nan |-> file.q = "nan"]

\* cutout_tile without the skip_nan test of the loop over the found files
cutout_tile_keeps_nan(tile_id, file_type, instruments, bands, skip_nan) ==
    LET files == find_files(tile_id, file_type, instruments, bands)
        kept == { e \in files : CutoutResult(e.file).success }
    IN  [success |-> kept # {},
         cutouts |-> { [key |-> e.key,
                        contains_nan |-> CutoutResult(e.file).contains_nan] :
                       e \in kept }]

\* cutout_tile: the 'cutouts' dict (its keys) and the success flag
cutout_tile(tile_id, file_type, instruments, bands, skip_nan) ==
    LET files == find_files(tile_id, file_type, instruments, bands)
        kept == { e \in files :
                    /\ CutoutResult(e.file).success
                    /\ ~(CutoutResult(e.file).contains_nan /\ skip_nan) }
    IN  [success |-> kept # {},
         cutouts |-> { [key |-> e.key,
                        contains_nan |-> CutoutResult(e.file).contains_nan] :
                       e \in kept }]

\* cutout_tile: result['error'], the reason of a cutout that did not succeed
CutoutError(tile_id, file_type, instruments, bands, skip_nan) ==
    IF find_files(tile_id, file_type, instruments, bands) = {} THEN "not_found"
    ELSE IF ~cutout_tile(tile_id, file_type, instruments, bands, skip_nan).success
         THEN "all_failed_or_nan"
    ELSE "none"

\* the obj_id of a row in _process_single_source_parallel
ObjId(row, obj_id_col) ==
    IF obj_id_col /\ row.id # Masked THEN row.id
    ELSE <<"ra_", ToString(row.ra), "_dec_", ToString(row.dec)>>

\* what can go wrong in a worker besides the cutout itself: nothing, the
\* save of one file type fails, or one file type raises inside the try.
\* cutout_tile catches every exception itself, so the except branch of the
\* worker is only reached from the branch of a successful cutout.
Faults(file_types) ==
    {<<"none", "">>}
        \cup { <<"save_failed", file_types[i]>> : i \in 1..Len(file_types) }
        \cup { <<"error", file_types[i]>> : i \in 1..Len(file_types) }

\* the status of one file type without the early return for an empty TILE_ID
SourceStatus_without_no_tile(row, file_type, cfg, fault) ==
    IF ~cutout_tile(row.tile, file_type, cfg.instruments, cfg.bands,
                    cfg.skip_nan).success
    THEN "cutout_failed"
    ELSE IF fault = <<"error", file_type>> THEN "error"
    ELSE IF fault = <<"save_failed", file_type>> THEN "save_failed"
    ELSE "success"

\* _process_single_source_parallel: the status of one file type of a row
SourceStatus(row, file_type, cfg, fault) ==
    IF row.tile = NoTile THEN "no_tile"
    ELSE IF ~cutout_tile(row.tile, file_type, cfg.instruments, cfg.bands,
                         cfg.skip_nan).success
         THEN "cutout_failed"
    ELSE IF fault = <<"error", file_type>> THEN "error"
    ELSE IF fault = <<"save_failed", file_type>> THEN "save_failed"
    ELSE "success"

\* _process_single_source_parallel leaving the loop over the file types at the
\* first one that does not succeed
process_single_source_stops_at_failure(row, cfg, fault) ==
    LET fts == cfg.file_types
        bad == { k \in 1..Len(fts) : SourceStatus(row, fts[k], cfg, fault) # "success" }
        last == IF bad = {} \/ row.tile = NoTile THEN Len(fts)
                ELSE CHOOSE k \in bad : \A j \in bad : k <= j
    IN  [obj_id |-> ObjId(row, cfg.obj_id_col), crashed |-> FALSE,
         results |-> [ft \in { fts[k] : k \in 1..last } |->
                        SourceStatus(row, ft, cfg, fault)]]

\* _process_single_source_parallel: {'obj_id': ..., 'results': {ft: status}}
process_single_source_parallel(row, cfg, fault) ==
    [obj_id |-> ObjId(row, cfg.obj_id_col), crashed |-> FALSE,
     results |-> [ft \in Range(cfg.file_types) |->
                    SourceStatus(row, ft, cfg, fault)]]

\* len(stats[file_type]['errors']) < 10
errors_cap == 10

\* process_catalog: the stats after one collected result
AddResult(stats, obj_id, res, verbose) ==
    [ft \in DOMAIN stats |->
        IF ft \notin DOMAIN res THEN stats[ft]
        ELSE IF res[ft] = "success"
             THEN [stats[ft] EXCEPT !.success = @ + 1]
             ELSE [stats[ft] EXCEPT
                     !.failed = @ + 1,
                     !.errors = IF verbose /\ Len(@) < errors_cap
                                THEN Append(@, <<obj_id, res[ft]>>) ELSE @]]
\* the except branch around future.result() counting nothing
AddCrash_uncounted(stats) == stats

\* process_catalog: the except branch around future.result()
AddCrash(stats) ==
    [ft \in DOMAIN stats |-> [stats[ft] EXCEPT !.failed = @ + 1]]

\* process_catalog up to the dispatch: the RA/DEC check, the TILE_ID column
\* (catalog_with_tile), the empty stats, one future per row
process_catalog_begin ==
    /\ bpc = "idle"
    /\ bcfg.radec_ok
    /\ catalog' = [i \in 1..Len(catalog) |->
                    [catalog[i] EXCEPT
                        !.tile = query_tile_id(catalog[i].ra, catalog[i].dec, TileIndex)]]
    /\ bstats' = [ft \in Range(bcfg.file_types) |->
                    [success |-> 0, failed |-> 0, errors |-> << >>]]
    /\ pending' = 1..Len(catalog)
    /\ bpc' = "running"
    /\ UNCHANGED <<mer, bcfg, results, written, outFiles>>

\* process_catalog raising ValueError: the catalog lacks the RA/DEC column
process_catalog_raises ==
    /\ bpc = "idle"
    /\ ~bcfg.radec_ok
    /\ bpc' = "raised"
    /\ UNCHANGED <<mer, catalog, bcfg, pending, results, written, bstats, outFiles>>

\* the rows whose result may be collected next: any pending one under the
\* process pool (as_completed), the first pending one in serial mode
Collectable ==
    IF bcfg.parallel THEN pending
    ELSE { i \in pending : \A j \in pending : i <= j }

\* one worker runs _process_single_source_parallel on row i and the loop of
\* process_catalog collects its result
worker_result(i, fault) ==
    /\ bpc = "running"
    /\ i \in Collectable
    /\ fault \in Faults(bcfg.file_types)
    /\ LET r == process_single_source_parallel(catalog[i], bcfg, fault)
           saved == { ft \in DOMAIN r.results : r.results[ft] = "success" }
       IN
        /\ results' = results @@ (i :> r)
        /\ bstats' = AddResult(bstats, r.obj_id, r.results, bcfg.verbose)
        /\ written' = written \cup { <<i, ft>> : ft \in saved }
        /\ outFiles' = [p \in DOMAIN outFiles \cup { <<ft, r.obj_id>> : ft \in saved } |->
                            IF p[2] = r.obj_id /\ p[1] \in saved
                            THEN [row |-> i, obj_id |-> r.obj_id,
                                  cutouts |-> cutout_tile(catalog[i].tile, p[1],
                                                 bcfg.instruments, bcfg.bands,
                                                 bcfg.skip_nan).cutouts]
                            ELSE outFiles[p]]
    /\ pending' = pending \ {i}
    /\ UNCHANGED <<mer, catalog, bcfg, bpc>>

\* the worker of row i raises: future.result() raises in process_catalog
worker_crash(i) ==
    /\ bpc = "running"
    /\ i \in Collectable
    /\ results' = results @@ (i :> [obj_id |-> << >>, crashed |-> TRUE, results |-> << >>])
    /\ bstats' = AddCrash(bstats)
    /\ pending' = pending \ {i}
    /\ UNCHANGED <<mer, catalog, bcfg, bpc, written, outFiles>>

\* process_catalog returns stats
process_catalog_return ==
    /\ bpc = "running"
    /\ pending = {}
    /\ bpc' = "returned"
    /\ UNCHANGED <<mer, catalog, bcfg, pending, results, written, bstats, outFiles>>

(***************************************************************************)
(* Inputs                                                                  *)
(***************************************************************************)
\* the files of a tile's directories
NirY(tag, q) == MerFile("NISP", tag, <<"NIR", "Y">>, q)
NirJ(tag, q) == MerFile("NISP", tag, <<"NIR", "J">>, q)
VisFile(tag, q) == MerFile("VIS", tag, <<"VIS">>, q)

GoodDir == {NirY("BGSUB", "ok"), NirJ("BGSUB", "ok"), NirY("RMS", "ok"),
            VisFile("BGSUB", "ok")}
MerDirs ==
    { {VisFile("BGSUB", "ok"), VisFile("RMS", "ok")},      \* nothing of NISP
      {NirY("BGSUB", "ok"), NirJ("BGSUB", "nan"), NirY("RMS", "bad")},
      {NirY("BGSUB", "nan"), NirJ("BGSUB", "nan"), NirY("RMS", "ok")} }

\* tile T1 is complete, tile T2 is one of MerDirs, other tiles have no directory
MerLayouts == { ("T1" :> GoodDir) @@ ("T2" :> d) : d \in MerDirs }

\* catalog rows: ra 1 lies in T1, ra 5 in T2, ra 9 in no tile
RowKinds ==
    { [id |-> <<"1", "2">>, ra |-> 1, dec |-> 0, tile |-> NoTile],
      [id |-> <<"1", "2", "3">>, ra |-> 5, dec |-> 0, tile |-> NoTile],
      [id |-> <<"1", "2">>, ra |-> 9, dec |-> 0, tile |-> NoTile],
      [id |-> Masked, ra |-> 5, dec |-> 0, tile |-> NoTile] }

Catalogs == UNION { [1..n -> RowKinds] : n \in 0..MaxRows }

\* the parameters TaskExecutor._process_new_sources passes to process_catalog
ExecutorCfg(file_types, band) ==
    [file_types |-> file_types, instruments |-> {"NISP"}, bands |-> {band},
     skip_nan |-> TRUE, parallel |-> TRUE, verbose |-> TRUE,
     obj_id_col |-> TRUE, radec_ok |-> TRUE]

ExecutorCfgs ==
    { ExecutorCfg(<<"BGSUB", "RMS">>, <<"NIR", "Y">>),
      ExecutorCfg(<<"BGSUB">>, <<"NIR", "J">>) }

\* parameters of direct calls of process_catalog
BatchCfgs ==
    { ExecutorCfg(<<"BGSUB", "RMS">>, <<"NIR", "Y">>),
      [file_types |-> <<"BGSUB", "RMS">>, instruments |-> {"NISP"}, bands |-> {},
       skip_nan |-> TRUE, parallel |-> FALSE, verbose |-> FALSE,
       obj_id_col |-> TRUE, radec_ok |-> TRUE],
      [file_types |-> <<"BGSUB">>, instruments |-> {"NISP"}, bands |-> {},
       skip_nan |-> FALSE, parallel |-> FALSE, verbose |-> TRUE,
       obj_id_col |-> FALSE, radec_ok |-> TRUE],
      [file_types |-> <<"RMS">>, instruments |-> {"NISP", "VIS"}, bands |-> {},
       skip_nan |-> FALSE, parallel |-> TRUE, verbose |-> FALSE,
       obj_id_col |-> TRUE, radec_ok |-> FALSE] }

\* what process_catalog may return for n rows, as far as the registry sees it
ReturnedStats(n) ==
    { [ft \in {"BGSUB", "RMS"} |->
          [success |-> s[ft], failed |-> n - s[ft], errors |-> << >>]] :
      s \in [{"BGSUB", "RMS"} -> 0..n] }

(***************************************************************************)
(* Part 3 (specification SpecLegacy): process_task of the legacy service,  *)
(* legacy/Euclid_flash_app.py, with its two cache trees: CACHE_DIR, read   *)
(* by the per-source cache check, and the band directories of              *)
(* PERMANENT_DOWNLOAD_DIR, read by scan_band_cache.  Every submitted task  *)
(* runs process_task in a thread of its own.                               *)
(***************************************************************************)
\* number of tasks submitted to the legacy service
NLegacyTasks == 2

LegacyTasks == 1..NLegacyTasks

\* the config submit_task builds from the form: one instrument, one band
LegacyConfig ==
    [file_types |-> <<"BGSUB">>, instrument |-> "NISP", band |-> <<"NIR", "Y">>,
     size |-> 128]

\* the parameters process_task passes to process_catalog
LegacyBatchCfg ==
    [file_types |-> LegacyConfig.file_types, instruments |-> {LegacyConfig.instrument},
     bands |-> {LegacyConfig.band}, skip_nan |-> TRUE, parallel |-> TRUE,
     verbose |-> FALSE, obj_id_col |-> TRUE, radec_ok |-> TRUE]

\* generate_source_cache_key; the model's coordinates are whole multiples of
\* 0.01 degree, which round(x, 6) leaves as they are
generate_source_cache_key(ra, dec, size, instrument, file_type, band) ==
    <<ra, dec, size, instrument, file_type, band>>

\* build_unified_filename for a row that has a target id: the band is left
\* out of the name for VIS
build_unified_filename(target_id, file_type, instrument, band) ==
    IF band = <<"VIS">> THEN <<target_id, instrument, file_type>>
    ELSE <<target_id, instrument, file_type, band>>

\* Python's 'a in b' on strings
IsSubstring(a, b) ==
    \E k \in 0..(Len(b) - Len(a)) : SubSeq(b, k + 1, k + Len(a)) = a

\* what a file cut out for a row holds: the OBJID, the position, the product
Artifact(row, file_type) ==
    [obj |-> row.id, ra |-> row.ra, dec |-> row.dec, ft |-> file_type]

\* scan_band_cache, the loop over target_ids: the first id that occurs in the
\* file name (only the name's first part holds digits)
MatchedTargetId(target_ids, name) ==
    IF \E j \in 1..Len(target_ids) : IsSubstring(target_ids[j], name[1])
    THEN target_ids[CHOOSE j \in 1..Len(target_ids) :
                        /\ IsSubstring(target_ids[j], name[1])
                        /\ \A h \in 1..(j-1) : ~IsSubstring(target_ids[h], name[1])]
    ELSE Masked

\* scan_band_cache: target id -> the files of the band directory matched to it
scan_band_cache(target_ids, file_types, band) ==
    [tid \in Range(target_ids) |->
        { name \in DOMAIN pcache :
            /\ name[Len(name)] = band
            /\ name[3] \in Range(file_types)
            /\ MatchedTargetId(target_ids, name) = tid }]

\* the orders in which os.listdir may return the files of a directory
Orders(S) ==
    { q \in [1..Cardinality(S) -> S] : \A a, b \in DOMAIN q : q[a] = q[b] => a = b }

\* process_task up to the end of the cache check (lines 561-853): status
\* processing, scan_band_cache, and for every row the permanent hits and the
\* CACHE_DIR check that fills cached_sources_info and sources_to_process
\* process_task, line 850: int((i + 1) / len(catalog) * 100), i from 0
CheckProgress(i, n) == (100 * (i + 1)) \div n

\* the progress of the copy loop without min(progress, 99)
CopyProgress_uncapped(processed, n) == 50 + (50 * processed) \div n

\* process_task, lines 1123 and 1142:
\* min(int(50 + (processed_count / len(catalog) * 50)), 99)
CopyProgress(processed, n) ==
    IF 50 + (50 * processed) \div n > 99 THEN 99 ELSE 50 + (50 * processed) \div n

l_check_cache(t) ==
    /\ lpc[t] = "queued"
    /\ LET cat == lcatalog[t]
           cfg == LegacyConfig
           fts == Range(cfg.file_types)
           target_ids == [i \in 1..Len(cat) |-> cat[i].id]
           band_cache == scan_band_cache(target_ids, cfg.file_types, cfg.band)
           key(i, ft) == generate_source_cache_key(cat[i].ra, cat[i].dec, cfg.size,
                                                   cfg.instrument, ft, cfg.band)
           pairs == (1..Len(cat)) \X fts
           hits == { p \in pairs : key(p[1], p[2]) \in DOMAIN lcache }
           todo == pairs \ hits
       IN
        /\ lscan' = [lscan EXCEPT ![t] =
              [sources_to_process |->
                  { [index |-> p[1], target_id |-> cat[p[1]].id, file_type |-> p[2]] :
                    p \in todo },
               cached_sources_info |->
                  { [cache_file |-> key(p[1], p[2]), file_type |-> p[2],
                     source_index |-> p[1], target_id |-> cat[p[1]].id] : p \in hits },
               permanent_cached_files |->
                  UNION { { [cache_file |-> name, target_id |-> cat[i].id,
                             file_type |-> name[3]] : name \in band_cache[cat[i].id] } :
                          i \in 1..Len(cat) }]]
        /\ lstats' = [lstats EXCEPT ![t] =
              [total_sources |-> Len(cat), cached_sources |-> Cardinality(hits),
               new_sources |-> 0, errors |-> 0,
               permanent_cached |->
                  Cardinality({ i \in 1..Len(cat) :
                      fts \subseteq { name[3] : name \in band_cache[cat[i].id] } })]]
        /\ lallperm' = [lallperm EXCEPT ![t] =
              \A p \in pairs :
                  build_unified_filename(cat[p[1]].id, p[2], cfg.instrument, cfg.band)
                      \in DOMAIN pcache]
        /\ lpc' = [lpc EXCEPT ![t] = IF todo # {} THEN "extract" ELSE "cached"]
    /\ ltasks' = [ltasks EXCEPT
                    ![t].status = "processing",
                    ![t].progress = CheckProgress(Len(lcatalog[t]) - 1, Len(lcatalog[t]))]
    /\ lprior' = [lprior EXCEPT ![t] =
                    { u \in LegacyTasks : ltasks[u].status = "completed" }]
    /\ UNCHANGED <<lcache, pcache, pwrites, lcatalog, lres, ltemp, lpos, ldelivered>>

\* a catalog row with the TILE_ID process_catalog gives it
WithTile(row) ==
    [row EXCEPT !.tile = query_tile_id(row.ra, row.dec, TileIndex)]

\* the stats process_catalog returns for the results of its workers
ProcessStats(res, file_types) ==
    [ft \in Range(file_types) |->
        [success |-> Cardinality({ i \in DOMAIN res : res[i][ft] = "success" }),
         failed |-> Cardinality({ i \in DOMAIN res : res[i][ft] # "success" }),
         errors |-> << >>]]

\* the copy loop's position: the row, the file type's index, the matching
\* files still to copy, and what the existence test of the band cache gave
CopyPos(i, k, todo, absent) == [i |-> i, k |-> k, todo |-> todo, absent |-> absent]

\* the copy loop, lines 916-950, for row i and the k-th file type: the files
\* of temp_process_dir/<file type> whose name contains the row's target id
\* (no row of these catalogs falls back on the RA/Dec pattern: every row has
\* an id, and no file is named after a position)
MatchingFiles(t, i, k, temp) ==
    { f \in DOMAIN temp :
        /\ f[1] = LegacyConfig.file_types[k]
        /\ IsSubstring(lcatalog[t][i].id, f[2]) }

\* the (row, file type) pairs of the copy loop in its order, as numbers
PairNo(i, k) == (i - 1) * Len(LegacyConfig.file_types) + k

\* the pairs after number m for which the loop finds matching files
LaterPairs(t, m, temp) ==
    { p \in (1..Len(lcatalog[t])) \X (1..Len(LegacyConfig.file_types)) :
        PairNo(p[1], p[2]) > m /\ MatchingFiles(t, p[1], p[2], temp) # {} }

\* processed_count after the pair number m: the pairs up to it that had
\* matching files
ProcessedCount(t, m, temp) ==
    Cardinality({ p \in (1..Len(lcatalog[t])) \X (1..Len(LegacyConfig.file_types)) :
                    PairNo(p[1], p[2]) <= m /\ MatchingFiles(t, p[1], p[2], temp) # {} })

\* the copy loop after one step: on to the next matching file; or, the
\* files of pair number m being done, the progress written and on to the
\* next (row, file type) that has matching files, listed in some order, or
\* out of the loop, where temp_process_dir is removed
CopyAdvance(t, rest, m, temp) ==
    IF rest # << >>
    THEN /\ lpos' = [lpos EXCEPT ![t] = CopyPos(@.i, @.k, rest, FALSE)]
         /\ lpc' = [lpc EXCEPT ![t] = "copy"]
         /\ ltemp' = [ltemp EXCEPT ![t] = temp]
         /\ UNCHANGED ltasks
    ELSE /\ ltasks' = IF m = 0 THEN ltasks
                      ELSE [ltasks EXCEPT ![t].progress =
                              CopyProgress(ProcessedCount(t, m, temp), Len(lcatalog[t]))]
         /\ IF LaterPairs(t, m, temp) # {}
            THEN LET p == CHOOSE p \in LaterPairs(t, m, temp) :
                            \A q \in LaterPairs(t, m, temp) :
                                PairNo(p[1], p[2]) <= PairNo(q[1], q[2])
                 IN  /\ \E order \in Orders(MatchingFiles(t, p[1], p[2], temp)) :
                            lpos' = [lpos EXCEPT ![t] = CopyPos(p[1], p[2], order, FALSE)]
                     /\ lpc' = [lpc EXCEPT ![t] = "copy"]
                     /\ ltemp' = [ltemp EXCEPT ![t] = temp]
            ELSE /\ lpos' = [lpos EXCEPT ![t] =
                                CopyPos(Len(lcatalog[t]) + 1, 1, << >>, FALSE)]
                 /\ lpc' = [lpc EXCEPT ![t] = "cached"]
                 /\ ltemp' = [ltemp EXCEPT ![t] = << >>]

\* what goes wrong in the workers of one legacy batch: nothing, or the save
\* of one file type of one row fails
LegacyFaults(indices, file_types) ==
    { f \in [indices -> Faults(file_types)] :
        /\ \A i \in indices : f[i][1] \in {"none", "save_failed"}
        /\ \A i, j \in indices : f[i][1] # "none" /\ f[j][1] # "none" => i = j }

\* process_task, lines 856-901: process_catalog on the rows of
\* sources_to_process, writing <file type>/<obj_id>.fits into temp_process_dir
\* (a later row overwrites the file of an earlier one with the same obj_id),
\* then stats['new_sources'] and stats['errors'], and the copy loop's first
\* directory listing
l_process_catalog(t) ==
    /\ lpc[t] = "extract"
    /\ LET cat == lcatalog[t]
           cfg == LegacyBatchCfg
           processed_indices == { s.index : s \in lscan[t].sources_to_process }
       IN \E faults \in LegacyFaults(processed_indices, cfg.file_types) :
          LET res == [i \in processed_indices |->
                        process_single_source_parallel(WithTile(cat[i]), cfg,
                                                       faults[i]).results]
              keys == { <<ft, cat[i].id>> : i \in processed_indices, ft \in Range(cfg.file_types) }
              writers(k) == { i \in processed_indices :
                                cat[i].id = k[2] /\ res[i][k[1]] = "success" }
              written_keys == { k \in keys : writers(k) # {} }
              process_stats == ProcessStats(res, cfg.file_types)
          IN  /\ \E last \in [written_keys -> processed_indices] :
                    /\ \A k \in written_keys : last[k] \in writers(k)
                    /\ CopyAdvance(t, << >>, 0,
                          [k \in written_keys |-> Artifact(cat[last[k]], k[1])])
              /\ lres' = [lres EXCEPT ![t] = res]
              /\ lstats' = [lstats EXCEPT
                              ![t].new_sources = DictGet(process_stats, "success", 0),
                              ![t].errors = DictGet(process_stats, "error", 0)]
    /\ UNCHANGED <<lcache, pcache, pwrites, lcatalog, lscan, ldelivered,
                   lprior, lallperm>>

\* the name the copy loop gives the file it is copying: the row's target id,
\* and the BAND of the file's first image, which is the requested band
CopyName(t) ==
    build_unified_filename(lcatalog[t][lpos[t].i].id,
                           LegacyConfig.file_types[lpos[t].k],
                           LegacyConfig.instrument, LegacyConfig.band)

\* the copy loop, lines 952-1039, for one matching file: the copies into
\* permanent_task_dir and the task output, then os.path.exists(band_cache_file)
l_copy_file(t) ==
    /\ lpc[t] = "copy"
    /\ LET match_file == Head(lpos[t].todo)
           name == CopyName(t)
       IN
        /\ ldelivered' = [ldelivered EXCEPT ![t] =
                            [n \in DOMAIN @ \cup {name} |->
                                IF n = name THEN ltemp[t][match_file] ELSE @[n]]]
        /\ IF name \notin DOMAIN pcache
           THEN /\ lpos' = [lpos EXCEPT ![t].absent = TRUE]
                /\ lpc' = [lpc EXCEPT ![t] = "backup"]
                /\ UNCHANGED <<ltemp, ltasks>>
           ELSE CopyAdvance(t, Tail(lpos[t].todo), PairNo(lpos[t].i, lpos[t].k),
                            ltemp[t])
    /\ UNCHANGED <<lcache, pcache, pwrites, lcatalog, lscan, lstats, lres,
                   lprior, lallperm>>

\* the copy loop, lines 1040-1047: shutil.copy2 into the band cache after the
\* existence test found no file there
l_copy_backup(t) ==
    /\ lpc[t] = "backup"
    /\ LET match_file == Head(lpos[t].todo)
           name == CopyName(t)
       IN
        /\ pcache' = [n \in DOMAIN pcache \cup {name} |->
                        IF n = name THEN ltemp[t][match_file] ELSE pcache[n]]
        /\ pwrites' = pwrites \cup
                        { [task |-> t, row |-> lpos[t].i,
                           ft |-> LegacyConfig.file_types[lpos[t].k], name |-> name] }
        /\ CopyAdvance(t, Tail(lpos[t].todo), PairNo(lpos[t].i, lpos[t].k), ltemp[t])
    /\ UNCHANGED <<lcache, lcatalog, lscan, lstats, lres, ldelivered,
                   lprior, lallperm>>

\* process_task, lines 1157-1367: the loop over cached_sources_info, where
\* every entry raises at the logger.debug of line 1245 (cache_filename is
\* unbound when the entry has a band) and counts as an error before anything
\* is copied; then the loop over permanent_cached_files, which copies each
\* file under its own name into permanent_task_dir and the task output
l_copy_cached(t) ==
    /\ lpc[t] = "cached"
    /\ lstats' = [lstats EXCEPT
                    ![t].errors = @ + Cardinality(lscan[t].cached_sources_info)]
    /\ LET names == { e.cache_file : e \in lscan[t].permanent_cached_files } IN
       ldelivered' = [ldelivered EXCEPT ![t] =
                        [n \in DOMAIN @ \cup names |->
                            IF n \in names THEN pcache[n] ELSE @[n]]]
    /\ ltasks' = [ltasks EXCEPT ![t].progress = 99]
    /\ lpc' = [lpc EXCEPT ![t] = "package"]
    /\ UNCHANGED <<lcache, pcache, pwrites, lcatalog, lscan, lres, ltemp, lpos,
                   lprior, lallperm>>

\* process_task, lines 1374-1462: the zip of permanent_task_dir, then status
\* completed with the stats
l_package(t) ==
    /\ lpc[t] = "package"
    /\ ltasks' = [ltasks EXCEPT ![t] =
                    [status |-> "completed", progress |-> 100, stats |-> <<lstats[t]>>]]
    /\ lpc' = [lpc EXCEPT ![t] = "done"]
    /\ UNCHANGED <<lcache, pcache, pwrites, lcatalog, lscan, lstats, lres, ltemp,
                   lpos, ldelivered, lprior, lallperm>>

\* process_task, lines 1491-1497: the zip cannot be written, status failed
l_package_raises(t) ==
    /\ lpc[t] = "package"
    /\ ltasks' = [ltasks EXCEPT ![t].status = "failed"]
    /\ lpc' = [lpc EXCEPT ![t] = "done"]
    /\ UNCHANGED <<lcache, pcache, pwrites, lcatalog, lscan, lstats, lres, ltemp,
                   lpos, ldelivered, lprior, lallperm>>

\* submit_task: the entry of a task, and the idle state of its thread
LegIdle ==
    /\ lcache = << >>
    /\ pcache = << >>
    /\ pwrites = {}
    /\ ltasks = [t \in LegacyTasks |-> [status |-> "queued", progress |-> 0, stats |-> << >>]]
    /\ lpc = [t \in LegacyTasks |-> "queued"]
    /\ lcatalog = [t \in LegacyTasks |-> << >>]
    /\ lscan = [t \in LegacyTasks |->
                  [sources_to_process |-> {}, cached_sources_info |-> {},
                   permanent_cached_files |-> {}]]
    /\ lstats = [t \in LegacyTasks |-> << >>]
    /\ lres = [t \in LegacyTasks |-> << >>]
    /\ ltemp = [t \in LegacyTasks |-> << >>]
    /\ lpos = [t \in LegacyTasks |-> CopyPos(0, 0, << >>, FALSE)]
    /\ ldelivered = [t \in LegacyTasks |-> << >>]
    /\ lprior = [t \in LegacyTasks |-> {}]
    /\ lallperm = [t \in LegacyTasks |-> FALSE]

(***************************************************************************)
(* Part 4 (specification SpecByTile): process_catalog_by_tile and the      *)
(* functions it calls, euclid_cutout_remix.py.                             *)
(***************************************************************************)
\* the rows of the largest catalog handed to process_catalog_by_tile
MaxTileRows == 3

\* Python's None, as a tile id and as a key of tile_groups
None == "None"

\* the exception of a call that does not fit the function's parameters
TypeError == "TypeError"

\* the parameters of a call of process_catalog_by_tile; with_task says that
\* task_id, tasks and tasks_lock are passed
ByTileCfg(file_types, parallel, with_task) ==
    [file_types |-> file_types, instruments |-> {"NISP"}, parallel |-> parallel,
     with_task |-> with_task]

\* a call of query_tile_id(ra, dec, tile_index_file, tolerance=0.01) with the
\* positional arguments args: tile_index_file has no default, so a call that
\* leaves it out raises TypeError
query_tile_id_call(args) ==
    IF Len(args) < 3 THEN TypeError
    ELSE IF query_tile_id(args[1], args[2], args[3]) = NoTile THEN None
    ELSE query_tile_id(args[1], args[2], args[3])

\* _process_single_source: query_tile_id(ra, dec) is called outside the try
\* blocks, so its exception leaves the function; were a tile id returned, every
\* find_files(tile_id, instrument=..., file_type=...) would raise inside the
\* try of its file type, and the function would return having saved nothing
process_single_source(source, config) ==
    IF query_tile_id_call(<<source.ra, source.dec>>) = TypeError THEN "raised"
    ELSE "returned"

\* _process_tile_group_with_targets: the counts it puts under every file type
\* and under 'count'
process_tile_group_with_targets(indices, config) ==
    LET ok == { i \in indices : process_single_source(tcatalog[i], config) = "returned" }
    IN  [success |-> Cardinality(ok), failed |-> Cardinality(indices \ ok),
         count |-> Cardinality(indices)]

\* process_catalog_by_tile: the tile id stored for row i; the except branch
\* around query_tile_id stores None
TileIdOf(i) ==
    IF query_tile_id_call(<<tcatalog[i].ra, tcatalog[i].dec>>) = TypeError THEN None
    ELSE query_tile_id_call(<<tcatalog[i].ra, tcatalog[i].dec>>)

\* min(int(30 + (processed_count / total_sources) * 60), 90)
ByTileProgress(processed, total_sources) ==
    IF 30 + (60 * processed) \div total_sources > 90 THEN 90
    ELSE 30 + (60 * processed) \div total_sources

\* process_catalog_by_tile up to the loop over the groups: the empty stats,
\* the tile ids, tile_groups
by_tile_begin ==
    /\ tpc = "idle"
    /\ tstats' = [ft \in Range(tcfg.file_types) |->
                    [success |-> 0, failed |-> 0, total |-> Len(tcatalog)]]
    /\ tile_groups' = [k \in { TileIdOf(i) : i \in 1..Len(tcatalog) } |->
                         { i \in 1..Len(tcatalog) : TileIdOf(i) = k }]
    /\ tgdone' = {}
    /\ processed_count' = 0
    /\ tpc' = "grouped"
    /\ UNCHANGED <<tcatalog, tcfg, tprogress, tile_files_cache, qindex, qpos, qres>>

\* config['tile_files_cache'] once the group of key k has been worked on.
\* _process_tile_group_with_targets makes an empty dict and stores it in the
\* config it was handed, before every source; the sources raise before they
\* look into it, and nothing removes the key.  A serial run hands on the
\* config dict of process_catalog_by_tile itself, a parallel run a pickled
\* copy that ends with the worker's call.  The group of None calls
\* _process_single_source only, which does not store the key.
TileFilesCacheAfter(k) ==
    IF k # None /\ ~tcfg.parallel /\ tile_groups[k] # {}
    THEN <<[owner |-> k, filled |-> {}]>>
    ELSE tile_files_cache

\* process_catalog_by_tile works on one group.  The group of None: its
\* sources one by one, progress written (parallel mode only) after each that
\* did not raise.  The group of a tile: _process_tile_group_with_targets, its
\* counts added, the progress written; in parallel mode the print after it
\* sums r['success'] over result.values(), of which result['count'] is an
\* int, and the except branch counts the whole group as failed once more.
by_tile_group(k) ==
    /\ tpc = "grouped"
    /\ k \in DOMAIN tile_groups \ tgdone
    /\ LET group == tile_groups[k]
           res == process_tile_group_with_targets(group, tcfg)
           total == Len(tcatalog)
       IN  IF k = None
           THEN /\ tstats' = [ft \in DOMAIN tstats |->
                                [tstats[ft] EXCEPT !.success = @ + res.success,
                                                   !.failed = @ + res.failed]]
                /\ processed_count' = IF tcfg.parallel THEN processed_count + res.success
                                      ELSE processed_count
                /\ tprogress' = IF tcfg.parallel /\ tcfg.with_task
                                THEN tprogress \cup
                                     { ByTileProgress(processed_count + j, total) :
                                         j \in 1..res.success }
                                ELSE tprogress
           ELSE /\ tstats' = [ft \in DOMAIN tstats |->
                                [tstats[ft] EXCEPT
                                    !.success = @ + res.success,
                                    !.failed = @ + res.failed
                                               + IF tcfg.parallel THEN res.count ELSE 0]]
                /\ processed_count' = processed_count + res.count
                /\ tprogress' = IF tcfg.with_task
                                THEN tprogress \cup
                                     {ByTileProgress(processed_count + res.count, total)}
                                ELSE tprogress
    /\ tile_files_cache' = TileFilesCacheAfter(k)
    /\ tgdone' = tgdone \cup {k}
    /\ UNCHANGED <<tcatalog, tcfg, tpc, tile_groups, qindex, qpos, qres>>

\* process_catalog_by_tile returns stats
by_tile_return ==
    /\ tpc = "grouped"
    /\ tgdone = DOMAIN tile_groups
    /\ tpc' = "returned"
    /\ UNCHANGED <<tcatalog, tcfg, tile_groups, tgdone, processed_count, tstats,
                   tprogress, tile_files_cache, qindex, qpos, qres>>

\* nothing has called process_catalog_by_tile or query_tile_id
TilIdle ==
    /\ tcatalog = << >>
    /\ tcfg = ByTileCfg(<<"BGSUB">>, TRUE, FALSE)
    /\ tpc = "idle"
    /\ tile_groups = << >>
    /\ tgdone = {}
    /\ processed_count = 0
    /\ tstats = << >>
    /\ tprogress = {}
    /\ tile_files_cache = << >>
    /\ qindex = << >>
    /\ qpos = [ra |-> 0, dec |-> 0]
    /\ qres = "pending"

(***************************************************************************)
(* Part 5 (specification SpecProgress): the values process_task writes     *)
(* into tasks[task_id]['progress'] and the length of                       *)
(* stats['failed_targets'], for a catalog of pn rows and pk file types,    *)
(* whatever the cache checks, the directory listings and the copies give.  *)
(***************************************************************************)
\* the rows of the largest catalog, and the most file types of a request
MaxProgressRows == 12
MaxFileTypes == 3

\* process_task, lines 568-572: status processing, progress 0
pro_start ==
    /\ ppc = "queued"
    /\ pvalue' = 0
    /\ ppc' = "check"
    /\ UNCHANGED <<pn, pk, pidx, pcount, pflag, pfailed>>

\* process_task, lines 575-592: the task's zip exists already
pro_zip_found ==
    /\ ppc = "check"
    /\ pidx = 0
    /\ pvalue' = 100
    /\ ppc' = "done"
    /\ UNCHANGED <<pn, pk, pidx, pcount, pflag, pfailed>>

\* process_task, lines 737-853, row pidx of the cache check: a row with a
\* masked target id leaves the loop body at the continue; for the others
\* progress is written at every tenth row and at the last one
pro_check_row(masked) ==
    /\ ppc = "check"
    /\ pidx < pn
    /\ pvalue' = IF ~masked /\ (pidx % 10 = 0 \/ pidx = pn - 1)
                 THEN CheckProgress(pidx, pn) ELSE pvalue
    /\ pidx' = pidx + 1
    /\ UNCHANGED <<pn, pk, ppc, pcount, pflag, pfailed>>

\* process_task, line 856: 'if sources_to_process', and the start of the
\* copy loop with processed_count = 0
pro_check_done(to_process) ==
    /\ ppc = "check"
    /\ pidx = pn
    /\ to_process => pn > 0
    /\ ppc' = IF to_process THEN "copy" ELSE "cached"
    /\ pidx' = 0
    /\ pcount' = 0
    /\ UNCHANGED <<pn, pk, pvalue, pflag, pfailed>>

\* what the copy loop meets at a (row, file type): no matching file, files
\* of which it copies one at least, or files none of which it copies (each
\* one empty, line 957, or its copy raising, line 1055)
CopyOutcomes == {"no_match", "copied", "not_copied"}

\* process_task, lines 913-1152, one (row, file type) of the copy loop;
\* files_processed_for_target is reset at the first file type of a row.  With
\* no matching file the body is left at a continue.  Otherwise, if no file of
\* the row has been copied so far, the row is appended to
\* stats['failed_targets']; then processed_count += 1 and the progress is
\* written.
pro_copy_pair(outcome) ==
    /\ ppc = "copy"
    /\ pidx < pn * pk
    /\ LET before == IF pidx % pk = 0 THEN FALSE ELSE pflag
           after == before \/ outcome = "copied"
       IN  /\ pflag' = after
           /\ pfailed' = IF outcome = "not_copied" /\ ~after THEN pfailed + 1 ELSE pfailed
    /\ pcount' = IF outcome # "no_match" THEN pcount + 1 ELSE pcount
    /\ pvalue' = IF outcome # "no_match" THEN CopyProgress(pcount + 1, pn) ELSE pvalue
    /\ pidx' = pidx + 1
    /\ UNCHANGED <<pn, pk, ppc>>

\* the copy loop has gone through the catalog
pro_copy_done ==
    /\ ppc = "copy"
    /\ pidx = pn * pk
    /\ ppc' = "cached"
    /\ UNCHANGED <<pn, pk, pidx, pcount, pvalue, pflag, pfailed>>

\* process_task, lines 1369-1372: progress 99 before the zip is made
pro_cached ==
    /\ ppc = "cached"
    /\ pvalue' = 99
    /\ ppc' = "package"
    /\ UNCHANGED <<pn, pk, pidx, pcount, pflag, pfailed>>

\* process_task, lines 1455-1461 and 1478-1484: completed, progress 100
pro_package ==
    /\ ppc = "package"
    /\ pvalue' = 100
    /\ ppc' = "done"
    /\ UNCHANGED <<pn, pk, pidx, pcount, pflag, pfailed>>

\* process_task, lines 1491-1497: failed, the progress stays
pro_package_raises ==
    /\ ppc = "package"
    /\ ppc' = "done"
    /\ UNCHANGED <<pn, pk, pidx, pcount, pvalue, pflag, pfailed>>

\* no process_task of this part is running
ProIdle ==
    /\ pn = 0
    /\ pk = 1
    /\ ppc = "queued"
    /\ pidx = 0
    /\ pcount = 0
    /\ pvalue = NoProgress
    /\ pflag = FALSE
    /\ pfailed = 0

\* no call is modelled
CallIdle ==
    /\ call_args = << >>
    /\ call_ret = "pending"

(***************************************************************************)
(* Specifications                                                          *)
(***************************************************************************)
RegIdle ==
    /\ tasks = << >>
    /\ pc = [t \in TaskIds |-> "none"]
    /\ xstats = [t \in TaskIds |-> InitialStats]
    /\ zipOnDisk = [t \in TaskIds |-> FALSE]
    /\ cancelled_ok = {}
    /\ xcols = [t \in TaskIds |-> {}]
    /\ wlog = {}
    /\ xconfig = [t \in TaskIds |-> [ra_col |-> "RA", dec_col |-> "DEC"]]

BatIdle ==
    /\ mer = ("T1" :> GoodDir) @@ ("T2" :> {})
    /\ catalog = << >>
    /\ bcfg = ExecutorCfg(<<"BGSUB", "RMS">>, <<"NIR", "Y">>)
    /\ bpc = "idle"
    /\ pending = {}
    /\ results = << >>
    /\ written = {}
    /\ bstats = << >>
    /\ outFiles = << >>

\* ---- Spec: the registry with its executor threads
Init ==
    /\ tasks = << >>
    /\ pc = [t \in TaskIds |-> "none"]
    /\ xstats = [t \in TaskIds |-> InitialStats]
    /\ zipOnDisk \in [TaskIds -> BOOLEAN]
    /\ cancelled_ok = {}
    /\ xcols = [t \in TaskIds |-> {}]
    /\ wlog = {}
    /\ xconfig = [t \in TaskIds |-> [ra_col |-> "RA", dec_col |-> "DEC"]]
    /\ BatIdle
    /\ LegIdle
    /\ TilIdle
    /\ ProIdle
    /\ CallIdle

Next ==
    \/ create_task /\ UNCHANGED <<batVars, legVars, tilVars, proVars, callVars>>
    \/ \E id \in TaskIds : cancel_task(id) /\ UNCHANGED <<batVars, legVars, tilVars, proVars, callVars>>
    \/ \E id \in TaskIds : cancel_task_refused(id) /\ UNCHANGED <<batVars, legVars, tilVars, proVars, callVars>>
    \/ \E t \in TaskIds : exec_start(t) /\ UNCHANGED <<batVars, legVars, tilVars, proVars, callVars>>
    \/ \E t \in TaskIds : check_cached_result_hit(t) /\ UNCHANGED <<batVars, legVars, tilVars, proVars, callVars>>
    \/ \E t \in TaskIds : check_cached_result_miss(t) /\ UNCHANGED <<batVars, legVars, tilVars, proVars, callVars>>
    \/ \E t \in TaskIds, n \in 0..(max_catalog_rows + 1), cols \in ColumnSets :
          load_and_validate_catalog(t, n, cols) /\ UNCHANGED <<batVars, legVars, tilVars, proVars, callVars>>
    \/ \E t \in TaskIds : load_raises(t) /\ UNCHANGED <<batVars, legVars, tilVars, proVars, callVars>>
    \/ \E t \in TaskIds : process_skipped(t) /\ UNCHANGED <<batVars, legVars, tilVars, proVars, callVars>>
    \/ \E t \in TaskIds :
          \E ps \in ReturnedStats(xstats[t].total_sources) :
              process_new_sources(t, ps) /\ UNCHANGED <<batVars, legVars, tilVars, proVars, callVars>>
    \/ \E t \in TaskIds : process_raises(t) /\ UNCHANGED <<batVars, legVars, tilVars, proVars, callVars>>
    \/ \E t \in TaskIds : package_results(t) /\ UNCHANGED <<batVars, legVars, tilVars, proVars, callVars>>
    \/ \E t \in TaskIds : package_raises(t) /\ UNCHANGED <<batVars, legVars, tilVars, proVars, callVars>>
    \/ \E t \in TaskIds : exec_complete(t) /\ UNCHANGED <<batVars, legVars, tilVars, proVars, callVars>>
    \/ \E t \in TaskIds : exec_failed(t) /\ UNCHANGED <<batVars, legVars, tilVars, proVars, callVars>>

Spec == Init /\ [][Next]_vars

\* ---- SpecCatalog: one call of process_catalog
InitCatalog ==
    /\ RegIdle
    /\ mer \in MerLayouts
    /\ catalog \in Catalogs
    /\ bcfg \in BatchCfgs
    /\ bpc = "idle"
    /\ pending = {}
    /\ results = << >>
    /\ written = {}
    /\ bstats = << >>
    /\ outFiles = << >>
    /\ LegIdle
    /\ TilIdle
    /\ ProIdle
    /\ CallIdle

NextCatalog ==
    \/ process_catalog_begin /\ UNCHANGED <<regVars, legVars, tilVars, proVars, callVars>>
    \/ process_catalog_raises /\ UNCHANGED <<regVars, legVars, tilVars, proVars, callVars>>
    \/ \E i \in 1..MaxRows : \E fault \in Faults(bcfg.file_types) :
          worker_result(i, fault) /\ UNCHANGED <<regVars, legVars, tilVars, proVars, callVars>>
    \/ \E i \in 1..MaxRows : worker_crash(i) /\ UNCHANGED <<regVars, legVars, tilVars, proVars, callVars>>
    \/ process_catalog_return /\ UNCHANGED <<regVars, legVars, tilVars, proVars, callVars>>

SpecCatalog == InitCatalog /\ [][NextCatalog]_vars

\* ---- SpecExec: one task of the service, its executor thread running
\* process_catalog on the rows of the task's catalog file (the interleavings
\* with cancel_task are those of Spec)
\* the catalog files: up to one row more than max_catalog_rows
ExecRowKinds == { r \in RowKinds : r.id # Masked }

ExecCatalogs == UNION { [1..n -> ExecRowKinds] : n \in 0..(max_catalog_rows + 1) }

\* the MER trees of the task: tile T2 has NISP files, some of them unusable
ExecMerLayouts == { l \in MerLayouts : \E f \in l["T2"] : f.dir = "NISP" }

\* execute, steps 3-4 on the task's catalog file: the rows after
\* catalog[:max_catalog_rows] are what the later steps see
exec_load(t) ==
    /\ \E cols \in ColumnSets : load_and_validate_catalog(t, Len(catalog), cols)
    /\ catalog' = SubSeq(catalog, 1, KeptRows(Len(catalog)))
    /\ UNCHANGED <<mer, bcfg, bpc, pending, results, written, bstats, outFiles>>

\* execute, step 6: _process_new_sources calls process_catalog
exec_process_begin(t) ==
    /\ pc[t] = "process"
    /\ xstats[t].total_sources > 0
    /\ process_catalog_begin
    /\ UNCHANGED regVars

\* execute, step 6: process_catalog returns its stats to _process_new_sources
exec_process_return(t) ==
    /\ process_catalog_return
    /\ process_new_sources(t, bstats)

\* execute, step 6: process_catalog raises before it dispatches a row (the
\* tile index file cannot be read)
exec_process_raises(t) ==
    /\ bpc = "idle"
    /\ process_raises(t)
    /\ UNCHANGED batVars

InitExec ==
    /\ RegIdle
    /\ mer \in ExecMerLayouts
    /\ catalog \in ExecCatalogs
    /\ bcfg \in ExecutorCfgs
    /\ bpc = "idle"
    /\ pending = {}
    /\ results = << >>
    /\ written = {}
    /\ bstats = << >>
    /\ outFiles = << >>
    /\ LegIdle
    /\ TilIdle
    /\ ProIdle
    /\ CallIdle

NextExec ==
    \/ tasks = << >> /\ create_task /\ UNCHANGED <<batVars, legVars, tilVars, proVars, callVars>>
    \/ exec_start(1) /\ UNCHANGED <<batVars, legVars, tilVars, proVars, callVars>>
    \/ check_cached_result_miss(1) /\ UNCHANGED <<batVars, legVars, tilVars, proVars, callVars>>
    \/ exec_load(1) /\ UNCHANGED <<legVars, tilVars, proVars, callVars>>
    \/ load_raises(1) /\ UNCHANGED <<batVars, legVars, tilVars, proVars, callVars>>
    \/ process_skipped(1) /\ UNCHANGED <<batVars, legVars, tilVars, proVars, callVars>>
    \/ exec_process_begin(1) /\ UNCHANGED <<legVars, tilVars, proVars, callVars>>
    \/ \E i \in 1..max_catalog_rows : \E fault \in Faults(bcfg.file_types) :
          worker_result(i, fault) /\ UNCHANGED <<regVars, legVars, tilVars, proVars, callVars>>
    \/ \E i \in 1..max_catalog_rows : worker_crash(i) /\ UNCHANGED <<regVars, legVars, tilVars, proVars, callVars>>
    \/ exec_process_return(1) /\ UNCHANGED <<legVars, tilVars, proVars, callVars>>
    \/ exec_process_raises(1) /\ UNCHANGED <<legVars, tilVars, proVars, callVars>>
    \/ package_results(1) /\ UNCHANGED <<batVars, legVars, tilVars, proVars, callVars>>
    \/ package_raises(1) /\ UNCHANGED <<batVars, legVars, tilVars, proVars, callVars>>
    \/ exec_complete(1) /\ UNCHANGED <<batVars, legVars, tilVars, proVars, callVars>>
    \/ exec_failed(1) /\ UNCHANGED <<batVars, legVars, tilVars, proVars, callVars>>

SpecExec == InitExec /\ [][NextExec]_vars

\* ---- SpecLegacy: the tasks submitted to the legacy service, their
\* process_task threads running concurrently
\* the rows of the legacy catalogs: two objects with the id 12 in different
\* tiles, and the object 123
LegacyRowKinds ==
    { [id |-> <<"1", "2">>, ra |-> 1, dec |-> 0, tile |-> NoTile],
      [id |-> <<"1", "2">>, ra |-> 5, dec |-> 0, tile |-> NoTile],
      [id |-> <<"1", "2", "3">>, ra |-> 5, dec |-> 0, tile |-> NoTile] }

\* the catalogs of the legacy tasks: one row, or two rows of which one has
\* an id that is part of the other's, or two rows with the same id
LegacyCatalogs ==
    { c \in UNION { [1..n -> LegacyRowKinds] : n \in 1..2 } :
        Len(c) = 2 => c[1].ra < c[2].ra \/ (c[1].ra = c[2].ra /\ Len(c[1].id) > Len(c[2].id)) }

\* the MER tree of the legacy runs: both tiles complete
LegacyMer == ("T1" :> GoodDir) @@ ("T2" :> GoodDir)

\* what CACHE_DIR holds when the service starts: nothing, or the file of the
\* position ra = 1, readable or not
LegacyCaches ==
    { << >> } \cup
    { generate_source_cache_key(1, 0, LegacyConfig.size, LegacyConfig.instrument,
                                "BGSUB", LegacyConfig.band) :> [readable |-> r] :
      r \in BOOLEAN }

InitLegacy ==
    /\ RegIdle
    /\ mer = LegacyMer
    /\ catalog = << >>
    /\ bcfg = LegacyBatchCfg
    /\ bpc = "idle"
    /\ pending = {}
    /\ results = << >>
    /\ written = {}
    /\ bstats = << >>
    /\ outFiles = << >>
    /\ lcache \in LegacyCaches
    /\ pcache = << >>
    /\ pwrites = {}
    /\ ltasks = [t \in LegacyTasks |-> [status |-> "queued", progress |-> 0, stats |-> << >>]]
    /\ lpc = [t \in LegacyTasks |-> "queued"]
    /\ lcatalog \in [LegacyTasks -> LegacyCatalogs]
    /\ lscan = [t \in LegacyTasks |->
                  [sources_to_process |-> {}, cached_sources_info |-> {},
                   permanent_cached_files |-> {}]]
    /\ lstats = [t \in LegacyTasks |-> << >>]
    /\ lres = [t \in LegacyTasks |-> << >>]
    /\ ltemp = [t \in LegacyTasks |-> << >>]
    /\ lpos = [t \in LegacyTasks |-> CopyPos(0, 0, << >>, FALSE)]
    /\ ldelivered = [t \in LegacyTasks |-> << >>]
    /\ lprior = [t \in LegacyTasks |-> {}]
    /\ lallperm = [t \in LegacyTasks |-> FALSE]
    /\ TilIdle
    /\ ProIdle
    /\ CallIdle

NextLegacy ==
    \/ \E t \in LegacyTasks : l_check_cache(t) /\ UNCHANGED <<regVars, batVars, tilVars, proVars, callVars>>
    \/ \E t \in LegacyTasks : l_process_catalog(t) /\ UNCHANGED <<regVars, batVars, tilVars, proVars, callVars>>
    \/ \E t \in LegacyTasks : l_copy_file(t) /\ UNCHANGED <<regVars, batVars, tilVars, proVars, callVars>>
    \/ \E t \in LegacyTasks : l_copy_backup(t) /\ UNCHANGED <<regVars, batVars, tilVars, proVars, callVars>>
    \/ \E t \in LegacyTasks : l_copy_cached(t) /\ UNCHANGED <<regVars, batVars, tilVars, proVars, callVars>>
    \/ \E t \in LegacyTasks : l_package(t) /\ UNCHANGED <<regVars, batVars, tilVars, proVars, callVars>>
    \/ \E t \in LegacyTasks : l_package_raises(t) /\ UNCHANGED <<regVars, batVars, tilVars, proVars, callVars>>

SpecLegacy == InitLegacy /\ [][NextLegacy]_vars

\* ---- SpecByTile: one call of process_catalog_by_tile
\* the rows of its catalogs: two positions of tile T1, one of tile T2
ByTileRowKinds ==
    { [id |-> <<"1">>, ra |-> 1, dec |-> 0],
      [id |-> <<"2">>, ra |-> 2, dec |-> 0],
      [id |-> <<"3">>, ra |-> 5, dec |-> 0] }

ByTileCatalogs == UNION { [1..n -> ByTileRowKinds] : n \in 0..MaxTileRows }

ByTileCfgs ==
    { ByTileCfg(fts, p, w) :
        fts \in {<<"BGSUB">>, <<"BGSUB", "RMS">>}, p \in BOOLEAN, w \in BOOLEAN }

InitByTile ==
    /\ RegIdle
    /\ mer = LegacyMer
    /\ catalog = << >>
    /\ bcfg = ExecutorCfg(<<"BGSUB", "RMS">>, <<"NIR", "Y">>)
    /\ bpc = "idle"
    /\ pending = {}
    /\ results = << >>
    /\ written = {}
    /\ bstats = << >>
    /\ outFiles = << >>
    /\ LegIdle
    /\ tcatalog \in ByTileCatalogs
    /\ tcfg \in ByTileCfgs
    /\ tpc = "idle"
    /\ tile_groups = << >>
    /\ tgdone = {}
    /\ processed_count = 0
    /\ tstats = << >>
    /\ tprogress = {}
    /\ tile_files_cache = << >>
    /\ qindex = << >>
    /\ qpos = [ra |-> 0, dec |-> 0]
    /\ qres = "pending"
    /\ ProIdle
    /\ CallIdle

NextByTile ==
    \/ by_tile_begin /\ UNCHANGED <<regVars, batVars, legVars, proVars, callVars>>
    \/ \E k \in DOMAIN tile_groups : by_tile_group(k) /\ UNCHANGED <<regVars, batVars, legVars, proVars, callVars>>
    \/ by_tile_return /\ UNCHANGED <<regVars, batVars, legVars, proVars, callVars>>

SpecByTile == InitByTile /\ [][NextByTile]_vars

\* ---- SpecQuery: one call of query_tile_id on a tile index file
\* the largest right ascension asked for
MaxRa == 15

\* rows of tile index files: two tiles of the same size with a common
\* boundary at ra = 2, and a wider tile next to them
QueryTiles ==
    { [TILE_ID |-> "A", RA_MIN |-> 0, RA_MAX |-> 2, DEC_MIN |-> -1, DEC_MAX |-> 1,
       RA_CENTER |-> 1, DEC_CENTER |-> 0],
      [TILE_ID |-> "B", RA_MIN |-> 2, RA_MAX |-> 4, DEC_MIN |-> -1, DEC_MAX |-> 1,
       RA_CENTER |-> 3, DEC_CENTER |-> 0],
      [TILE_ID |-> "C", RA_MIN |-> 4, RA_MAX |-> 14, DEC_MIN |-> -1, DEC_MAX |-> 1,
       RA_CENTER |-> 9, DEC_CENTER |-> 0] }

\* the index files: every choice of these rows in every order
QueryIndexes ==
    { s \in UNION { [1..n -> QueryTiles] : n \in 0..Cardinality(QueryTiles) } :
        \A i, j \in 1..Len(s) : i # j => s[i] # s[j] }

QueryPositions == [ra : 0..MaxRa, dec : {0, 3}]

\* query_tile_id(ra, dec, tile_index_file) is called and returns
query_call ==
    /\ qres = "pending"
    /\ qres' = <<query_tile_id(qpos.ra, qpos.dec, qindex)>>
    /\ UNCHANGED <<tcatalog, tcfg, tpc, tile_groups, tgdone, processed_count, tstats,
                   tprogress, tile_files_cache, qindex, qpos>>

InitQuery ==
    /\ RegIdle
    /\ BatIdle
    /\ LegIdle
    /\ tcatalog = << >>
    /\ tcfg = ByTileCfg(<<"BGSUB">>, TRUE, FALSE)
    /\ tpc = "idle"
    /\ tile_groups = << >>
    /\ tgdone = {}
    /\ processed_count = 0
    /\ tstats = << >>
    /\ tprogress = {}
    /\ tile_files_cache = << >>
    /\ qindex \in QueryIndexes
    /\ qpos \in QueryPositions
    /\ qres = "pending"
    /\ ProIdle
    /\ CallIdle

NextQuery ==
    query_call /\ UNCHANGED <<regVars, batVars, legVars, proVars, callVars>>

SpecQuery == InitQuery /\ [][NextQuery]_vars

\* ---- SpecProgress: the progress of one legacy task
InitProgress ==
    /\ RegIdle
    /\ BatIdle
    /\ LegIdle
    /\ TilIdle
    /\ pn \in 0..MaxProgressRows
    /\ pk \in 1..MaxFileTypes
    /\ ppc = "queued"
    /\ pidx = 0
    /\ pcount = 0
    /\ pvalue = NoProgress
    /\ pflag = FALSE
    /\ pfailed = 0
    /\ CallIdle

NextProgress ==
    \/ pro_start /\ UNCHANGED <<regVars, batVars, legVars, tilVars, callVars>>
    \/ pro_zip_found /\ UNCHANGED <<regVars, batVars, legVars, tilVars, callVars>>
    \/ \E masked \in BOOLEAN :
          pro_check_row(masked) /\ UNCHANGED <<regVars, batVars, legVars, tilVars, callVars>>
    \/ \E to_process \in BOOLEAN :
          pro_check_done(to_process) /\ UNCHANGED <<regVars, batVars, legVars, tilVars, callVars>>
    \/ \E outcome \in CopyOutcomes :
          pro_copy_pair(outcome) /\ UNCHANGED <<regVars, batVars, legVars, tilVars, callVars>>
    \/ pro_copy_done /\ UNCHANGED <<regVars, batVars, legVars, tilVars, callVars>>
    \/ pro_cached /\ UNCHANGED <<regVars, batVars, legVars, tilVars, callVars>>
    \/ pro_package /\ UNCHANGED <<regVars, batVars, legVars, tilVars, callVars>>
    \/ pro_package_raises /\ UNCHANGED <<regVars, batVars, legVars, tilVars, callVars>>

SpecProgress == InitProgress /\ [][NextProgress]_vars

(***************************************************************************)
(* Part 6 (specification SpecNames): the file names of the archive and     *)
(* _parse_filename, euclid_cutout_remix.py.  The part of a name before     *)
(* '_TILE' is the sequence of the pieces that '-' separates:               *)
(* EUC_MER_MOSAIC-NIR-Y-RMS is <<"EUC_MER_MOSAIC", "NIR", "Y", "RMS">>.    *)
(* No piece of the names used here holds another piece or a pattern as a   *)
(* part, so that the substring operations of the code act on whole pieces. *)
(***************************************************************************)
\* the file types of find_files' docstring
ProductTypes == {"BGSUB", "BGMOD", "FLAG", "RMS", "CATALOG-PSF"}

\* the file name prefixes of _get_instrument_prefix_map
InstrumentCodes == {"VIS", "NIR", "DES", "WISHES", "PANSTARRS", "CFIS"}

\* the band codes of the names: none for a single-channel instrument, one
\* piece, or several pieces
BandCodes == {<< >>, <<"Y">>, <<"J">>, <<"H">>, <<"G">>, <<"R">>, <<"I">>, <<"Z">>,
              <<"G", "EXT">>}

\* 'EUC_MER_' + _get_file_pattern(file_type), split at '-'
PatternPieces(file_type) ==
    CASE GetFilePattern(file_type) = "BGSUB-MOSAIC" -> <<"EUC_MER_BGSUB", "MOSAIC">>
      [] GetFilePattern(file_type) = "CATALOG-PSF" -> <<"EUC_MER_CATALOG", "PSF">>
      [] OTHER -> <<"EUC_MER_" \o GetFilePattern(file_type)>>

\* the names the archive gives to the mosaics of a product type, up to '_TILE'
\* (EUC_MER_BGSUB-MOSAIC-NIR-Y, EUC_MER_MOSAIC-NIR-Y-RMS, EUC_MER_CATALOG-PSF-VIS)
ArchiveName(product, code, band) ==
    IF product \in {"FLAG", "RMS"}
    THEN <<"EUC_MER_MOSAIC", code>> \o band \o <<product>>
    ELSE PatternPieces(product) \o <<code>> \o band

\* s.split(sep + '-')[-1]: what follows the last occurrence of the pieces sep
\* and a '-', the whole of s when there is none
AfterLast(s, sep) ==
    LET at == { k \in 1..Len(s) :
                  /\ k + Len(sep) - 1 < Len(s)
                  /\ SubSeq(s, k, k + Len(sep) - 1) = sep }
    IN  IF at = {} THEN s
        ELSE LET k == CHOOSE h \in at : \A g \in at : g <= h
             IN  SubSeq(s, k + Len(sep), Len(s))

\* s.split('-' + piece)[0]: what precedes the first '-' + piece
BeforeFirst(s, piece) ==
    LET at == { k \in 2..Len(s) : s[k] = piece }
    IN  IF at = {} THEN s
        ELSE SubSeq(s, 1, (CHOOSE h \in at : \A g \in at : h <= g) - 1)

\* _parse_filename with the band taken to be the last piece alone
parse_filename_last_piece(notile, file_type) ==
    LET inst_band == IF file_type \in {"FLAG", "RMS"}
                     THEN BeforeFirst(AfterLast(notile, <<"EUC_MER_MOSAIC">>), file_type)
                     ELSE AfterLast(notile, PatternPieces(file_type))
    IN  IF Len(inst_band) = 1 THEN <<inst_band[1], <<inst_band[1]>> >>
        ELSE <<inst_band[1], <<inst_band[Len(inst_band)]>> >>

\* _parse_filename on the part of the name before '_TILE': the pair
\* (instrument, band), the band as the pieces that '-'.join puts together
parse_filename(notile, file_type) ==
    LET inst_band == IF file_type \in {"FLAG", "RMS"}
                     THEN BeforeFirst(AfterLast(notile, <<"EUC_MER_MOSAIC">>), file_type)
                     ELSE AfterLast(notile, PatternPieces(file_type))
    IN  IF Len(inst_band) = 1 THEN <<inst_band[1], <<inst_band[1]>> >>
        ELSE <<inst_band[1], Tail(inst_band)>>

\* the calls of _parse_filename: a name of the archive and the file type
\* asked for
NameCalls ==
    { [product |-> p, code |-> c, band |-> b, file_type |-> ft] :
        p \in ProductTypes, c \in InstrumentCodes, b \in BandCodes, ft \in ProductTypes }

\* one call of _parse_filename
parse_filename_call ==
    /\ call_ret = "pending"
    /\ call_ret' = <<parse_filename(ArchiveName(call_args.product, call_args.code,
                                                call_args.band),
                                    call_args.file_type)>>
    /\ UNCHANGED call_args

InitNames ==
    /\ RegIdle
    /\ BatIdle
    /\ LegIdle
    /\ TilIdle
    /\ ProIdle
    /\ call_args \in NameCalls
    /\ call_ret = "pending"

NextNames ==
    parse_filename_call /\ UNCHANGED <<regVars, batVars, legVars, tilVars, proVars>>

SpecNames == InitNames /\ [][NextNames]_vars

\* ---- SpecFind: find_files on the names of one instrument directory
\* 'EUC_MER_<pattern>' in f
HasPattern(notile, file_type) ==
    LET sep == PatternPieces(file_type)
    IN  \E k \in 1..Len(notile) :
            /\ k + Len(sep) - 1 <= Len(notile)
            /\ SubSeq(notile, k, k + Len(sep) - 1) = sep

\* find_files: '<instrument>-<band>', or the band alone when it is the
\* instrument
FullBand(parsed) ==
    IF <<parsed[1]>> # parsed[2] THEN <<parsed[1]>> \o parsed[2] ELSE parsed[2]

\* find_files, the loop over the files of one instrument directory: the
\* files kept for file_type, each with the band of its key.  A file is the
\* record of the product, the instrument code and the band its name is made
\* of; bands is the set of the full bands asked for, {} standing for None.
find_files_in(files, file_type, bands) ==
    { [full_band |-> FullBand(parse_filename(ArchiveName(f.product, f.code, f.band),
                                             file_type)),
       file |-> f] :
      f \in { g \in files :
                /\ HasPattern(ArchiveName(g.product, g.code, g.band), file_type)
                /\ \/ bands = {}
                   \/ FullBand(parse_filename(ArchiveName(g.product, g.code, g.band),
                                              file_type)) \in bands } }

\* the band filters of the calls: none, or one of the bands of process_task's
\* all_bands
BandFilters == {{}, {<<"VIS">>}, {<<"NIR", "Y">>}, {<<"DES", "G">>, <<"DES", "R">>}}

\* the calls of find_files: a directory with one file, a file type and a
\* band filter
FindCalls ==
    { [files |-> {[product |-> p, code |-> cb[1], band |-> cb[2]]},
       file_type |-> ft, bands |-> bs] :
        p \in ProductTypes,
        cb \in {<<"VIS", << >> >>, <<"NIR", <<"Y">> >>, <<"NIR", <<"J">> >>,
                <<"DES", <<"G">> >>, <<"DES", <<"R">> >>},
        ft \in ProductTypes, bs \in BandFilters }

\* one call of find_files
find_files_call ==
    /\ call_ret = "pending"
    /\ call_ret' = <<find_files_in(call_args.files, call_args.file_type, call_args.bands)>>
    /\ UNCHANGED call_args

InitFind ==
    /\ RegIdle
    /\ BatIdle
    /\ LegIdle
    /\ TilIdle
    /\ ProIdle
    /\ call_args \in FindCalls
    /\ call_ret = "pending"

NextFind ==
    find_files_call /\ UNCHANGED <<regVars, batVars, legVars, tilVars, proVars>>

SpecFind == InitFind /\ [][NextFind]_vars

(***************************************************************************)
(* Part 7 (specification SpecUnified): the file names of the permanent     *)
(* tier, build_unified_filename of legacy/Euclid_flash_app.py, as the      *)
(* sequence of the pieces that '_' separates in the name.                  *)
(***************************************************************************)
\* "no band": the None (or '') a request without band passes
NoBand == ""

\* "no target id": a None, empty or zero target_id
NoTargetId == ""

\* file_type.replace('-', '_'), as '_'-separated pieces
FileTypeClean(file_type) ==
    IF file_type = "CATALOG-PSF" THEN <<"CATALOG", "PSF">> ELSE <<file_type>>

\* str.upper on the instrument and band names
Upper(name) ==
    CASE name = "vis" -> "VIS"
      [] name = "nisp" -> "NISP"
      [] name = "decam" -> "DECAM"
      [] name = "nir-y" -> "NIR-Y"
      [] name = "des-g" -> "DES-G"
      [] OTHER -> name

\* f"{x:.8f}".replace('.', '').replace('-', '') for a whole number of
\* degrees below 10
CoordStr(x) == ToString(IF x < 0 THEN -x ELSE x) \o "00000000"

\* build_unified_filename with the band part left out for every band
build_unified_filename_without_band(target_id, file_type, instrument, band, ra, dec) ==
    (IF target_id # NoTargetId THEN <<target_id>>
     ELSE <<"RA", CoordStr(ra), "Dec", CoordStr(dec)>>)
        \o <<Upper(instrument)>> \o FileTypeClean(file_type)

\* build_unified_filename called with ra and dec, the name without '.fits':
\* <target_id>_<instrument>_<file_type>[_<band>]
build_unified_filename_pieces(target_id, file_type, instrument, band, ra, dec) ==
    LET band_clean == IF band # NoBand THEN Upper(band) ELSE "VIS"
        id == IF target_id # NoTargetId THEN <<target_id>>
              ELSE <<"RA", CoordStr(ra), "Dec", CoordStr(dec)>>
    IN  IF band_clean = "VIS"
        THEN id \o <<Upper(instrument)>> \o FileTypeClean(file_type)
        ELSE id \o <<Upper(instrument)>> \o FileTypeClean(file_type) \o <<band_clean>>

\* the requests a name is built for: with or without target id, at the
\* position (1, 0), over instruments, file types and bands of the service
UnifiedRequests ==
    [target_id : {NoTargetId, "12", "123"},
     instrument : {"VIS", "NISP", "DECAM"},
     file_type : ProductTypes,
     band : {NoBand, "VIS", "NIR-Y", "DES-G"}]

\* two calls of build_unified_filename
build_unified_filename_calls ==
    /\ call_ret = "pending"
    /\ call_ret' = << build_unified_filename_pieces(call_args[1].target_id,
                          call_args[1].file_type, call_args[1].instrument,
                          call_args[1].band, 1, 0),
                      build_unified_filename_pieces(call_args[2].target_id,
                          call_args[2].file_type, call_args[2].instrument,
                          call_args[2].band, 1, 0) >>
    /\ UNCHANGED call_args

InitUnified ==
    /\ RegIdle
    /\ BatIdle
    /\ LegIdle
    /\ TilIdle
    /\ ProIdle
    /\ call_args \in [1..2 -> UnifiedRequests]
    /\ call_ret = "pending"

NextUnified ==
    build_unified_filename_calls /\ UNCHANGED <<regVars, batVars, legVars, tilVars, proVars>>

SpecUnified == InitUnified /\ [][NextUnified]_vars

(***************************************************************************)
(* Part 8 (specification SpecPsf): cutout_psf of euclid_cutout_remix.py on *)
(* a stamp image of H rows and W columns.  The centers of the nearest PSF  *)
(* are given in half pixels, so that int() has something to cut off.       *)
(***************************************************************************)
\* largest number of rows and of columns of the stamp image
MaxPsfDim == 4
\* largest STMPSIZE of the header
MaxStmpSize == 5

\* int(a / 2) for a number a of half pixels: Python's int() cuts toward zero
IntOfHalves(a) == IF a >= 0 THEN a \div 2 ELSE -((-a) \div 2)

\* max(0, v)
Max0(v) == IF v < 0 THEN 0 ELSE v

\* len(range(n)[lo:hi]) for 0 <= lo: the rows or columns a numpy slice keeps
SliceLen(lo, hi, n) ==
    LET b == IF hi < 0 THEN Max0(n + hi) ELSE IF hi > n THEN n ELSE hi
        a == IF lo > n THEN n ELSE lo
    IN  Max0(b - a)

\* the result of a failed cutout_psf
PsfFailure(error) ==
    [success |-> FALSE, error |-> error, rows |-> 0, cols |-> 0, x_min |-> 0, y_min |-> 0]

\* cutout_psf without the test 'x_min < 0 or y_min < 0'
cutout_psf_without_bounds_test(stmpsize, shape, x_center2, y_center2) ==
    IF stmpsize = 0 THEN PsfFailure("no STMPSIZE")
    ELSE
    LET half_size == stmpsize \div 2
        x0 == Max0(IntOfHalves(x_center2 - 2 * half_size) - 1)
        y0 == Max0(IntOfHalves(y_center2 - 2 * half_size) - 1)
        x_min == Max0(IF x0 + stmpsize > shape[2] THEN shape[2] - stmpsize ELSE x0)
        y_min == Max0(IF y0 + stmpsize > shape[1] THEN shape[1] - stmpsize ELSE y0)
        rows == SliceLen(y_min, y_min + stmpsize, shape[1])
        cols == SliceLen(x_min, x_min + stmpsize, shape[2])
    IN  [success |-> TRUE, error |-> "none", rows |-> rows, cols |-> cols,
         x_min |-> x_min, y_min |-> y_min]

\* cutout_psf: stmpsize is img_header.get('STMPSIZE', 0), shape is
\* img_data.shape, the centers are those of the nearest row of the PSF table
cutout_psf(stmpsize, shape, x_center2, y_center2) ==
    IF stmpsize = 0 THEN PsfFailure("no STMPSIZE")
    ELSE
    LET half_size == stmpsize \div 2
        x0 == Max0(IntOfHalves(x_center2 - 2 * half_size) - 1)
        y0 == Max0(IntOfHalves(y_center2 - 2 * half_size) - 1)
        x_min == IF x0 + stmpsize > shape[2] THEN shape[2] - stmpsize ELSE x0
        y_min == IF y0 + stmpsize > shape[1] THEN shape[1] - stmpsize ELSE y0
        rows == SliceLen(y_min, y_min + stmpsize, shape[1])
        cols == SliceLen(x_min, x_min + stmpsize, shape[2])
    IN  IF x_min < 0 \/ y_min < 0 THEN PsfFailure("outside the image")
        ELSE IF rows * cols = 0 THEN PsfFailure("empty")
        ELSE [success |-> TRUE, error |-> "none", rows |-> rows, cols |-> cols,
              x_min |-> x_min, y_min |-> y_min]

\* the calls of cutout_psf: the header's STMPSIZE (0 when it has none), the
\* shape of the image, the centers of the nearest PSF in half pixels
PsfCalls ==
    [stmpsize : 0..MaxStmpSize,
     shape : (1..MaxPsfDim) \X (1..MaxPsfDim),
     x_center2 : (-2)..(2 * MaxPsfDim + 2),
     y_center2 : {-1, 2, 5, 2 * MaxPsfDim + 1}]

\* one call of cutout_psf
cutout_psf_call ==
    /\ call_ret = "pending"
    /\ call_ret' = <<cutout_psf(call_args.stmpsize, call_args.shape,
                                call_args.x_center2, call_args.y_center2)>>
    /\ UNCHANGED call_args

InitPsf ==
    /\ RegIdle
    /\ BatIdle
    /\ LegIdle
    /\ TilIdle
    /\ ProIdle
    /\ call_args \in PsfCalls
    /\ call_ret = "pending"

NextPsf ==
    cutout_psf_call /\ UNCHANGED <<regVars, batVars, legVars, tilVars, proVars>>

SpecPsf == InitPsf /\ [][NextPsf]_vars

(***************************************************************************)
(* Part 9 (specification SpecBand): the band filter a submitted task runs  *)
(* with, from the request to the bands argument of process_catalog, for    *)
(* the three places that accept a task: submit_task of the legacy service, *)
(* submit_task of flask_app/routes/task_routes.py and handle_cutout_batch  *)
(* of mcp_server/tools/cutout_tools.py.                                    *)
(***************************************************************************)
\* band_map of the legacy submit_task
band_map ==
    [VIS |-> {"VIS"}, NISP |-> {"NIR-Y", "NIR-J", "NIR-H"},
     DECAM |-> {"DES-G", "DES-R", "DES-I", "DES-Z"}]

\* a band name as the pieces '-' separates; None has none of a name's pieces
BandPieces(band) ==
    CASE band = "VIS" -> <<"VIS">>
      [] band = "NIR-Y" -> <<"NIR", "Y">>
      [] band = "NIR-J" -> <<"NIR", "J">>
      [] band = "DES-G" -> <<"DES", "G">>
      [] band = "DES-R" -> <<"DES", "R">>
      [] OTHER -> <<band>>

\* the 'band' entry of the config the legacy submit_task builds: the first
\* of bands[] when it is a band of the instrument, else None; the key is
\* always there
legacy_config_band(form_band, instrument) ==
    IF form_band # NoBand /\ form_band \in band_map[instrument]
    THEN [band |-> form_band]
    ELSE [band |-> None]

\* the 'band' entry of the config of task_routes.submit_task
\* (request.form.get('band', 'VIS')) and of handle_cutout_batch
\* (arguments.get('bands', ['VIS'])[0] if arguments.get('bands') else 'VIS')
service_config_band(form_band) ==
    IF form_band # NoBand THEN [band |-> form_band] ELSE [band |-> "VIS"]

\* bands=[config.get('band', 'VIS')] of process_task and of
\* TaskExecutor._process_new_sources
bands_argument(config) == {BandPieces(DictGet(config, "band", "VIS"))}

\* the requests: where the task is submitted, the band of the form (NoBand
\* when it has none), the instrument, and the BGSUB mosaic of the tile
BandRequests ==
    [entry : {"legacy submit_task", "task_routes submit_task", "handle_cutout_batch"},
     form_band : {NoBand, "VIS", "NIR-Y", "DES-G"},
     instrument : {"VIS", "NISP", "DECAM"},
     file : { [product |-> "BGSUB", code |-> cb[1], band |-> cb[2]] :
                cb \in {<<"VIS", << >> >>, <<"NIR", <<"Y">> >>, <<"NIR", <<"J">> >>,
                        <<"DES", <<"G">> >>, <<"DES", <<"R">> >>} }]

\* a task is submitted and its executor calls process_catalog, which looks
\* for the BGSUB files of the tile
submit_and_find ==
    /\ call_ret = "pending"
    /\ LET config == IF call_args.entry = "legacy submit_task"
                     THEN legacy_config_band(call_args.form_band, call_args.instrument)
                     ELSE service_config_band(call_args.form_band)
           bands == bands_argument(config)
       IN  call_ret' = <<[bands |-> bands,
                          found |-> find_files_in({call_args.file}, "BGSUB", bands)]>>
    /\ UNCHANGED call_args

InitBand ==
    /\ RegIdle
    /\ BatIdle
    /\ LegIdle
    /\ TilIdle
    /\ ProIdle
    /\ call_args \in BandRequests
    /\ call_ret = "pending"

NextBand ==
    submit_and_find /\ UNCHANGED <<regVars, batVars, legVars, tilVars, proVars>>

SpecBand == InitBand /\ [][NextBand]_vars

(***************************************************************************)
(* Part 10 (specification SpecMcp): the registry of Part 1 as the MCP      *)
(* tools of mcp_server/tools/cutout_tools.py use it: handle_cutout_batch   *)
(* creates a task with TaskProcessor.create_task on mcp_tasks, and         *)
(* handle_get_cutout_status reads mcp_tasks.                               *)
(***************************************************************************)
\* what handle_get_cutout_status answers for an id that is not in mcp_tasks,
\* and when an exception reaches its except clause
StatusFailure == [success |-> FALSE, status |-> "", download_ready |-> "absent"]

\* handle_get_cutout_status computing the processing time and the download
\* information without testing that the keys are there
handle_get_cutout_status_without_key_tests(task_id) ==
    IF task_id \notin DOMAIN tasks THEN StatusFailure
    ELSE IF ~(tasks[task_id].start_time /\ tasks[task_id].end_time /\ tasks[task_id].zip_path)
         THEN StatusFailure
    ELSE [success |-> TRUE, status |-> tasks[task_id].status,
          download_ready |-> IF zipOnDisk[task_id] THEN "yes" ELSE "no"]

\* handle_get_cutout_status: the copy of the entry; for a completed task
\* with a zip_path, download_ready tells whether the zip exists
handle_get_cutout_status(task_id) ==
    IF task_id \notin DOMAIN tasks THEN StatusFailure
    ELSE [success |-> TRUE, status |-> tasks[task_id].status,
          download_ready |->
              IF tasks[task_id].status = "completed" /\ tasks[task_id].zip_path
              THEN (IF zipOnDisk[task_id] THEN "yes" ELSE "no")
              ELSE "absent"]

\* one call of handle_get_cutout_status
get_cutout_status_call(task_id) ==
    /\ call_args' = <<task_id>>
    /\ call_ret' = <<handle_get_cutout_status(task_id)>>

NextMcp ==
    \/ Next
    \/ \E task_id \in 1..(NTasks + 1) :
          get_cutout_status_call(task_id)
              /\ UNCHANGED <<regVars, batVars, legVars, tilVars, proVars>>

\* the zip of an earlier run is there for the second task, not for the first
InitMcp ==
    /\ Init
    /\ zipOnDisk = [t \in TaskIds |-> t = 2]

SpecMcp == InitMcp /\ [][NextMcp]_vars

\* ---- SpecSingle: handle_cutout_single of mcp_server/tools/cutout_tools.py,
\* one position cut out of the MER tree
\* what can go wrong in a call besides the cutouts: the faults of a worker
\* (Faults), or an exception before the loop over the file types
SingleFaults(file_types) == Faults(file_types) \cup {<<"outer", "">>}

\* the answer of handle_cutout_single that has no results: no tile, or the
\* outer except clause
SingleFailure(error) ==
    [success |-> FALSE, error |-> error, has_summary |-> FALSE, results |-> << >>,
     cutout_files |-> {}, summary |-> [total |-> 0, success |-> 0, failed |-> 0]]

\* results[file_type] of handle_cutout_single
SingleResult(tile_id, file_type, args, fault) ==
    IF fault = <<"error", file_type>> THEN [success |-> FALSE, error |-> "exception"]
    ELSE IF ~cutout_tile(tile_id, file_type, args.instruments, args.bands, TRUE).success
         THEN [success |-> FALSE,
               error |-> CutoutError(tile_id, file_type, args.instruments, args.bands, TRUE)]
    ELSE IF fault = <<"save_failed", file_type>>
         THEN [success |-> FALSE, error |-> "save failed"]
    ELSE [success |-> TRUE, error |-> "none"]

\* handle_cutout_single counting the failures against the requested list
handle_cutout_single_counting_requested(args, fault) ==
    LET tile_id == query_tile_id(args.ra, args.dec, TileIndex)
        res == [ft \in Range(args.file_types) |-> SingleResult(tile_id, ft, args, fault)]
        success_count == Cardinality({ ft \in DOMAIN res : res[ft].success })
    IN  IF fault = <<"outer", "">> THEN SingleFailure("exception")
        ELSE IF tile_id = NoTile THEN SingleFailure("no tile")
        ELSE [success |-> success_count > 0, error |-> "none", has_summary |-> TRUE,
              results |-> res,
              cutout_files |-> { ft \in DOMAIN res : res[ft].success },
              summary |-> [total |-> Len(args.file_types), success |-> success_count,
                           failed |-> Len(args.file_types) - success_count]]

\* handle_cutout_single: the answer for the arguments args
handle_cutout_single(args, fault) ==
    LET tile_id == query_tile_id(args.ra, args.dec, TileIndex)
        res == [ft \in Range(args.file_types) |-> SingleResult(tile_id, ft, args, fault)]
        success_count == Cardinality({ ft \in DOMAIN res : res[ft].success })
    IN  IF fault = <<"outer", "">> THEN SingleFailure("exception")
        ELSE IF tile_id = NoTile THEN SingleFailure("no tile")
        ELSE [success |-> success_count > 0, error |-> "none", has_summary |-> TRUE,
              results |-> res,
              cutout_files |-> { ft \in DOMAIN res : res[ft].success },
              summary |-> [total |-> Len(args.file_types), success |-> success_count,
                           failed |-> Cardinality(DOMAIN res) - success_count]]

\* the files save_cutouts writes during a call of handle_cutout_single
SingleSaved(args, fault) ==
    LET tile_id == query_tile_id(args.ra, args.dec, TileIndex)
    IN  IF fault = <<"outer", "">> \/ tile_id = NoTile THEN {}
        ELSE { <<1, ft>> : ft \in { f \in Range(args.file_types) :
                 /\ fault \notin {<<"error", f>>, <<"save_failed", f>>}
                 /\ cutout_tile(tile_id, f, args.instruments, args.bands, TRUE).success } }

\* the calls: a position in T1, in T2 or in no tile, the file types (with
\* repetitions), the instruments and the bands
SingleCalls ==
    [ra : {1, 5, 9}, dec : {0},
     file_types : {<<"BGSUB">>, <<"BGSUB", "RMS">>, <<"RMS", "RMS">>,
                   <<"BGSUB", "RMS", "BGSUB">>},
     instruments : {{"NISP"}, {"NISP", "VIS"}},
     bands : {{}, {<<"NIR", "Y">>}}]

\* one call of handle_cutout_single
handle_cutout_single_call(fault) ==
    /\ call_ret = "pending"
    /\ call_ret' = <<handle_cutout_single(call_args, fault)>>
    /\ written' = SingleSaved(call_args, fault)
    /\ UNCHANGED <<call_args, mer, catalog, bcfg, bpc, pending, results, bstats, outFiles>>

InitSingle ==
    /\ RegIdle
    /\ mer \in MerLayouts
    /\ catalog = << >>
    /\ bcfg = ExecutorCfg(<<"BGSUB", "RMS">>, <<"NIR", "Y">>)
    /\ bpc = "idle"
    /\ pending = {}
    /\ results = << >>
    /\ written = {}
    /\ bstats = << >>
    /\ outFiles = << >>
    /\ LegIdle
    /\ TilIdle
    /\ ProIdle
    /\ call_args \in SingleCalls
    /\ call_ret = "pending"

NextSingle ==
    \E fault \in SingleFaults(call_args.file_types) :
        handle_cutout_single_call(fault) /\ UNCHANGED <<regVars, legVars, tilVars, proVars>>

SpecSingle == InitSingle /\ [][NextSingle]_vars

\* ---- SpecImage: cutout_image of euclid_cutout_remix.py, the window
\* Cutout2D slices out of one image plane
MaxImgDim == 2
MaxCutSize == 2

\* a pixel that holds no number
NaN == -1

\* fill_value of cutout_image: its default, and another value
FillValues == {0, 5}

\* img_data: the value of pixel (y, x) of an image, rows and columns counted
\* from 0; img.nan00 says that pixel (0, 0) is NaN
ImagePixel(img, y, x) ==
    IF img.nan00 /\ y = 0 /\ x = 0 THEN NaN ELSE 1 + 10 * y + x

\* the smaller of two numbers
Min2(a, b) == IF a < b THEN a ELSE b

\* numpy.ceil of a position given in quarters of a pixel
CeilQuarter(a4) == -((-a4) \div 4)

\* overlap_slices: indices_min, the first row and column of the window;
\* pos4 is the pixel position (y, x) of the target in quarters of a pixel,
\* the center of pixel 0 being position 0
IndicesMin(pos4, shape) ==
    <<CeilQuarter(pos4[1] - 2 * shape[1]), CeilQuarter(pos4[2] - 2 * shape[2])>>

\* overlap_slices: NoOverlapError. A window that ends exactly at row or
\* column 0 raises it in the releases of the library that test e_max == 0,
\* and gives an empty overlap in the others (zero_is_error).
NoOverlap(large, shape, pos4, zero_is_error) ==
    LET mn == IndicesMin(pos4, shape)
    IN  \E i \in 1..2 :
            \/ mn[i] + shape[i] < 0
            \/ mn[i] + shape[i] = 0 /\ zero_is_error
            \/ mn[i] >= large[i]

\* overlap_slices in mode 'strict': PartialOverlapError
PartialOverlap(large, shape, pos4) ==
    LET mn == IndicesMin(pos4, shape)
    IN  \E i \in 1..2 : mn[i] < 0 \/ mn[i] + shape[i] > large[i]

\* overlap_slices: slices_large, the rows and columns of the image
LargeSlices(large, shape, pos4) ==
    LET mn == IndicesMin(pos4, shape)
    IN  [i \in 1..2 |-> [start |-> Max0(mn[i]),
                         stop |-> Max0(Min2(large[i], mn[i] + shape[i]))]]

\* overlap_slices: slices_small, the rows and columns of the window
SmallSlices(large, shape, pos4) ==
    LET mn == IndicesMin(pos4, shape)
    IN  [i \in 1..2 |-> [start |-> Max0(-mn[i]),
                         stop |-> Min2(large[i] - mn[i], shape[i])]]

\* the rows and columns of an array of the given shape
Cells(shape) == (0..(shape[1] - 1)) \X (0..(shape[2] - 1))

\* extract_array: the window of Cutout2D in the modes 'partial', 'trim'
\* and 'strict', once overlap_slices raised nothing
extract_array(img, shape, pos4, mode, fill_value) ==
    LET ls == LargeSlices(img.shape, shape, pos4)
        ss == SmallSlices(img.shape, shape, pos4)
        extracted == <<Max0(ls[1].stop - ls[1].start), Max0(ls[2].stop - ls[2].start)>>
        cut(r, c) == ImagePixel(img, ls[1].start + r, ls[2].start + c)
        filled(r, c) ==
            IF /\ r >= ss[1].start /\ r < ss[1].stop
               /\ c >= ss[2].start /\ c < ss[2].stop
            THEN ImagePixel(img, ls[1].start + r - ss[1].start,
                                 ls[2].start + c - ss[2].start)
            ELSE fill_value
    IN  IF mode = "partial" /\ extracted # shape
        THEN [shape |-> shape,
              pix |-> [rc \in Cells(shape) |-> filled(rc[1], rc[2])]]
        ELSE [shape |-> extracted,
              pix |-> [rc \in Cells(extracted) |-> cut(rc[1], rc[2])]]

\* the answer of cutout_image when Cutout2D raises
ImageFailure(error) ==
    [success |-> FALSE, data |-> [shape |-> <<0, 0>>, pix |-> << >>],
     error |-> error, contains_nan |-> FALSE]

\* cutout_image always cutting in mode 'trim'
cutout_image_trimming(img, pos4, size, mode, fill_value, zero_is_error) ==
    IF NoOverlap(img.shape, size, pos4, zero_is_error) THEN ImageFailure("NoOverlapError")
    ELSE LET data == extract_array(img, size, pos4, "trim", fill_value)
         IN  [success |-> TRUE, data |-> data, error |-> "none",
              contains_nan |-> \E rc \in DOMAIN data.pix : data.pix[rc] = NaN]

\* cutout_image: img stands for the opened image plane, pos4 for the pixel
\* position its WCS gives the target, size for (height, width)
cutout_image(img, pos4, size, mode, fill_value, zero_is_error) ==
    IF NoOverlap(img.shape, size, pos4, zero_is_error) THEN ImageFailure("NoOverlapError")
    ELSE IF mode = "strict" /\ PartialOverlap(img.shape, size, pos4)
         THEN ImageFailure("PartialOverlapError")
    ELSE LET data == extract_array(img, size, pos4, mode, fill_value)
         IN  [success |-> TRUE, data |-> data, error |-> "none",
              contains_nan |-> \E rc \in DOMAIN data.pix : data.pix[rc] = NaN]

\* the positions of a target on one axis, in quarters of a pixel: from
\* half a window before the first edge of the image to half a window after
\* the last edge of the largest image
Positions4 == (-(2 + 2 * MaxCutSize)) .. (4 * MaxImgDim - 2 + 2 * MaxCutSize)

\* the calls of cutout_image
ImageCalls ==
    [img : [shape : (1..MaxImgDim) \X (1..MaxImgDim), nan00 : BOOLEAN],
     pos4 : Positions4 \X Positions4,
     size : (1..MaxCutSize) \X (1..MaxCutSize),
     mode : {"partial", "trim", "strict"},
     fill_value : FillValues]

\* one call of cutout_image
cutout_image_call(zero_is_error) ==
    /\ call_ret = "pending"
    /\ call_ret' = <<cutout_image(call_args.img, call_args.pos4, call_args.size,
                                  call_args.mode, call_args.fill_value, zero_is_error)>>
    /\ UNCHANGED call_args

InitImage ==
    /\ RegIdle
    /\ BatIdle
    /\ LegIdle
    /\ TilIdle
    /\ ProIdle
    /\ call_args \in ImageCalls
    /\ call_ret = "pending"

NextImage ==
    \E zero_is_error \in BOOLEAN :
        cutout_image_call(zero_is_error)
            /\ UNCHANGED <<regVars, batVars, legVars, tilVars, proVars>>

SpecImage == InitImage /\ [][NextImage]_vars

\* ---- SpecTileGroups: the loop of process_catalog_by_tile over tile_groups
\* (lines 857-957), for any tile_groups a grouping can give.  With the tile
\* lookup of line 821 as it is only the group of None is formed (SpecByTile).
\* the groupings of the rows of a catalog: a tile id or None for each row
TileGroupings(n) ==
    { [k \in { f[i] : i \in 1..n } |-> { i \in 1..n : f[i] = k }] :
        f \in [1..n -> {"T1", "T2", None}] }

InitTileGroups ==
    /\ RegIdle
    /\ mer = LegacyMer
    /\ catalog = << >>
    /\ bcfg = ExecutorCfg(<<"BGSUB", "RMS">>, <<"NIR", "Y">>)
    /\ bpc = "idle"
    /\ pending = {}
    /\ results = << >>
    /\ written = {}
    /\ bstats = << >>
    /\ outFiles = << >>
    /\ LegIdle
    /\ tcatalog \in ByTileCatalogs
    /\ tcfg \in ByTileCfgs
    /\ tpc = "grouped"
    /\ tile_groups \in TileGroupings(Len(tcatalog))
    /\ tgdone = {}
    /\ processed_count = 0
    /\ tstats = [ft \in Range(tcfg.file_types) |->
                    [success |-> 0, failed |-> 0, total |-> Len(tcatalog)]]
    /\ tprogress = {}
    /\ tile_files_cache = << >>
    /\ qindex = << >>
    /\ qpos = [ra |-> 0, dec |-> 0]
    /\ qres = "pending"
    /\ ProIdle
    /\ CallIdle

NextTileGroups ==
    \/ \E k \in DOMAIN tile_groups : by_tile_group(k) /\ UNCHANGED <<regVars, batVars, legVars, proVars, callVars>>
    \/ by_tile_return /\ UNCHANGED <<regVars, batVars, legVars, proVars, callVars>>

SpecTileGroups == InitTileGroups /\ [][NextTileGroups]_vars

\* ---- SpecRequests: the registry with its executor threads, and the status
\* and download requests of the clients
\* download_result of flask_app/routes/task_routes.py: the HTTP status of the
\* answer
download_result(task_id) ==
    IF task_id \notin DOMAIN tasks THEN [code |-> 404, error |-> "no task"]
    ELSE IF tasks[task_id].status # "completed" THEN [code |-> 400, error |-> "not completed"]
    ELSE IF ~tasks[task_id].zip_path \/ ~zipOnDisk[task_id]
         THEN [code |-> 404, error |-> "no file"]
    ELSE [code |-> 200, error |-> "none"]

\* one download request
download_result_call(task_id) ==
    /\ call_args' = <<task_id, "download">>
    /\ call_ret' = <<download_result(task_id)>>

NextRequests ==
    \/ NextMcp
    \/ \E task_id \in 1..(NTasks + 1) :
          download_result_call(task_id)
              /\ UNCHANGED <<regVars, batVars, legVars, tilVars, proVars>>

SpecRequests == InitMcp /\ [][NextRequests]_vars

\* ---- SpecEnvelope: the result dict of cutout_image and of cutout_psf,
\* statement by statement, with an exception raised by any call they make
\* Python's None as a value of the result dict
NoValue == "None"

\* the result dict both functions start from
EmptyResult ==
    [success |-> FALSE, data |-> NoValue, wcs |-> NoValue, header |-> NoValue,
     error |-> NoValue, contains_nan |-> FALSE]

\* the calls inside the try block of cutout_image that can raise, in the
\* order of the statements: fits.open and hdul[hdu_index], WCS and SkyCoord,
\* Cutout2D, cutout.wcs.to_header(), np.isnan(cutout.data).any(), and the
\* close of the file when the with block is left
ImageRaisePoints == {"fits.open", "WCS", "Cutout2D", "to_header", "isnan", "close"}

\* the calls inside the try block of cutout_psf that can raise: fits.open
\* and the HDUs, the coordinates and the nearest row, the fits.Header filled
\* from the row, np.isnan(psf_cutout).any(), and the close of the file
PsfRaisePoints == {"fits.open", "SkyCoord", "Header", "isnan", "close"}

\* the except clause: result['error'] = str(e)
Except(result, message) == [result EXCEPT !.error = message]

\* cutout_image: the dict it returns when the call raise_at raises an
\* exception whose text is message ("none": nothing raises); the statements
\* after Cutout2D assign success, data, wcs, header and contains_nan in this
\* order
cutout_image_result(raise_at, message, nan) ==
    LET r1 == [EmptyResult EXCEPT !.success = TRUE, !.data = "array", !.wcs = "wcs"]
        r2 == [r1 EXCEPT !.header = "header"]
        r3 == [r2 EXCEPT !.contains_nan = nan]
    IN  CASE raise_at \in {"fits.open", "WCS", "Cutout2D"} -> Except(EmptyResult, message)
          [] raise_at = "to_header" -> Except(r1, message)
          [] raise_at = "isnan" -> Except(r2, message)
          [] raise_at = "close" -> Except(r3, message)
          [] OTHER -> r3

\* what cutout_psf finds in the file: a stamp it can cut, no STMPSIZE, a
\* stamp larger than the image, or an empty slice
PsfCases == {"ok", "no_stmpsize", "outside", "empty"}

\* cutout_psf: the dict it returns; the early returns set the error and
\* leave the rest of the dict as it was made
cutout_psf_result(psf_case, raise_at, message, nan) ==
    LET r1 == [EmptyResult EXCEPT !.success = TRUE, !.data = "array", !.header = "header"]
        r2 == [r1 EXCEPT !.contains_nan = nan]
    IN  CASE raise_at = "fits.open" -> Except(EmptyResult, message)
          [] psf_case = "no_stmpsize" -> Except(EmptyResult, "no STMPSIZE")
          [] raise_at = "SkyCoord" -> Except(EmptyResult, message)
          [] psf_case = "outside" -> Except(EmptyResult, "outside the image")
          [] psf_case = "empty" -> Except(EmptyResult, "empty array")
          [] raise_at = "Header" -> Except(EmptyResult, message)
          [] raise_at = "isnan" -> Except(r1, message)
          [] raise_at = "close" -> Except(r2, message)
          [] OTHER -> r2

\* the calls: the function, what it finds, the call that raises and the text
\* of the exception (str(e) of an exception without arguments is empty)
EnvelopeCalls ==
    [fn : {"cutout_image"}, psf_case : {"ok"},
     raise_at : ImageRaisePoints \cup {"none"}, message : {"message", ""}, nan : BOOLEAN]
    \cup
    [fn : {"cutout_psf"}, psf_case : PsfCases,
     raise_at : PsfRaisePoints \cup {"none"}, message : {"message", ""}, nan : BOOLEAN]

\* one call of cutout_image
cutout_image_result_call ==
    /\ call_ret = "pending"
    /\ call_args.fn = "cutout_image"
    /\ call_ret' = <<cutout_image_result(call_args.raise_at, call_args.message,
                                         call_args.nan)>>
    /\ UNCHANGED call_args

\* one call of cutout_psf
cutout_psf_result_call ==
    /\ call_ret = "pending"
    /\ call_args.fn = "cutout_psf"
    /\ call_ret' = <<cutout_psf_result(call_args.psf_case, call_args.raise_at,
                                       call_args.message, call_args.nan)>>
    /\ UNCHANGED call_args

InitEnvelope ==
    /\ RegIdle
    /\ BatIdle
    /\ LegIdle
    /\ TilIdle
    /\ ProIdle
    /\ call_args \in EnvelopeCalls
    /\ call_ret = "pending"

NextEnvelope ==
    \/ cutout_image_result_call /\ UNCHANGED <<regVars, batVars, legVars, tilVars, proVars>>
    \/ cutout_psf_result_call /\ UNCHANGED <<regVars, batVars, legVars, tilVars, proVars>>

SpecEnvelope == InitEnvelope /\ [][NextEnvelope]_vars

\* ---- SpecFair: the registry with executor threads that keep running
\* a step of the executor thread of task t: execute, one statement on
ExecutorStep(t) ==
    /\ UNCHANGED <<batVars, legVars, tilVars, proVars, callVars>>
    /\ \/ exec_start(t)
       \/ check_cached_result_hit(t)
       \/ check_cached_result_miss(t)
       \/ \E n \in 0..(max_catalog_rows + 1), cols \in ColumnSets :
             load_and_validate_catalog(t, n, cols)
       \/ load_raises(t)
       \/ process_skipped(t)
       \/ \E ps \in ReturnedStats(xstats[t].total_sources) : process_new_sources(t, ps)
       \/ process_raises(t)
       \/ package_results(t)
       \/ package_raises(t)
       \/ exec_complete(t)
       \/ exec_failed(t)

\* create_task starts a thread for execute; each of its steps returns or
\* raises, so a thread that can take a step takes it in the end
SpecFair ==
    /\ Init
    /\ [][Next]_vars
    /\ \A t \in TaskIds : WF_vars(ExecutorStep(t))

\* ---- SpecCancel: the registry, its executor threads, and cancel requests
\* whose answers are kept
\* one call of TaskProcessor.cancel_task with the value it returns
cancel_task_call(task_id) ==
    /\ call_args' = <<task_id, "cancel">>
    /\ \/ cancel_task(task_id) /\ call_ret' = <<TRUE>>
       \/ cancel_task_refused(task_id) /\ call_ret' = <<FALSE>>

NextCancel ==
    \/ Next
    \/ \E task_id \in 1..(NTasks + 1) :
          cancel_task_call(task_id) /\ UNCHANGED <<batVars, legVars, tilVars, proVars>>

SpecCancel == InitMcp /\ [][NextCancel]_vars

(***************************************************************************)
(* Claims                                                                  *)
(***************************************************************************)
\* the edges of the state machine queued -> processing ->
\* {completed | failed | cancelled}
StatusEdges ==
    { <<"queued", "processing">>, <<"processing", "completed">>,
      <<"processing", "failed">>, <<"processing", "cancelled">> }

\* C1: in every interleaving of create_task, execute and cancel_task a task
\* starts in status queued and its status changes only along the edges
\* queued->processing, processing->completed, processing->failed and
\* processing->cancelled; no other status value or status change occurs.
C1_StatusMachine ==
    [][\A t \in DOMAIN tasks' :
          IF t \in DOMAIN tasks
          THEN \/ tasks'[t].status = tasks[t].status
               \/ <<tasks[t].status, tasks'[t].status>> \in StatusEdges
          ELSE tasks'[t].status = "queued"]_vars

\* the files find_files hands to the cutout for row i and a file type
FoundFiles(i, ft) ==
    find_files(catalog[i].tile, ft, bcfg.instruments, bcfg.bands)

\* the rows whose worker has returned a result for a tile
CutRows == { i \in DOMAIN results : ~results[i].crashed /\ catalog[i].tile # NoTile }

\* C5: with skip_nan enabled cutout_tile never keeps a cutout whose
\* contains_nan flag is true, and when every extracted band is flagged it
\* returns success = false, so the product type is not a success of the row and
\* nothing is saved for it; with skip_nan disabled the flagged cutouts are kept.
C5_SkipNanPolicy ==
    bpc \in {"running", "returned"} =>
        /\ \A i \in CutRows : \A ft \in Range(bcfg.file_types) :
            LET cut == cutout_tile(catalog[i].tile, ft, bcfg.instruments,
                                   bcfg.bands, bcfg.skip_nan)
                flagged == { e \in FoundFiles(i, ft) : e.file.q = "nan" }
                clean == { e \in FoundFiles(i, ft) : e.file.q = "ok" }
            IN  IF bcfg.skip_nan
                THEN /\ \A c \in cut.cutouts : ~c.contains_nan
                     /\ { c.key : c \in cut.cutouts } = { e.key : e \in clean }
                     /\ clean = {} =>
                            /\ ~cut.success
                            /\ results[i].results[ft] # "success"
                            /\ <<i, ft>> \notin written
                ELSE /\ \A e \in flagged :
                            [key |-> e.key, contains_nan |-> TRUE] \in cut.cutouts
                     /\ flagged # {} => cut.success
        /\ bcfg.skip_nan =>
              \A p \in DOMAIN outFiles : \A c \in outFiles[p].cutouts : ~c.contains_nan

\* C5's case: skip_nan is on, every band found for a product type of a row
\* cuts out with NaN values, and the row's worker has reported the product type
C5_Witness ==
    /\ bcfg.skip_nan
    /\ \E i \in CutRows : \E ft \in Range(bcfg.file_types) :
          /\ FoundFiles(i, ft) # {}
          /\ \A e \in FoundFiles(i, ft) : e.file.q = "nan"
          /\ results[i].results[ft] = "cutout_failed"

\* the rows of the catalog that lie in no tile of the index, tolerance included
NoTileRows ==
    { i \in 1..Len(catalog) :
        \A k \in 1..Len(TileIndex) :
            \/ catalog[i].ra < TileIndex[k].RA_MIN - tolerance
            \/ catalog[i].ra > TileIndex[k].RA_MAX + tolerance
            \/ catalog[i].dec < TileIndex[k].DEC_MIN - tolerance
            \/ catalog[i].dec > TileIndex[k].DEC_MAX + tolerance }

\* C10: in process_catalog every row whose tile lookup finds no tile is
\* reported: each requested product type gets the status 'no_tile' for it and
\* counts it as failed, no file is written for it, and the returned statistics
\* account for every row.
C10_NoTileReported ==
    bpc \in {"running", "returned"} =>
        \A ft \in Range(bcfg.file_types) :
            /\ \A i \in NoTileRows \cap DOMAIN results :
                  /\ ~results[i].crashed => results[i].results[ft] = "no_tile"
                  /\ <<i, ft>> \notin written
            /\ bstats[ft].failed >= Cardinality(NoTileRows \cap DOMAIN results)
            /\ bpc = "returned" =>
                  /\ NoTileRows \subseteq DOMAIN results
                  /\ bstats[ft].success + bstats[ft].failed = Len(catalog)

\* C10's case: process_catalog has returned for a catalog that has a row
\* without tile and a row with a tile
C10_Witness ==
    /\ bpc = "returned"
    /\ NoTileRows # {}
    /\ CutRows # {}
    /\ \E i \in NoTileRows : ~results[i].crashed

\* a usable file exists for row i and a file type: one that cuts out, and
\* without NaN values when skip_nan is set
Usable(i, ft) ==
    \E e \in FoundFiles(i, ft) :
        e.file.q = "ok" \/ (e.file.q = "nan" /\ ~bcfg.skip_nan)

\* C9: a failure (not found, extraction error, save error, a raised exception)
\* for one product type of one source never stops the batch: every returned
\* source records every product type, a product type fails only for a reason
\* of its own, every source is collected before process_catalog returns, and
\* while the batch runs the executor does not go to its except branch.
C9_FailuresDoNotUnwind ==
    [][/\ \A i \in DOMAIN results' : ~results'[i].crashed =>
            /\ DOMAIN results'[i].results = Range(bcfg.file_types)
            /\ catalog[i].tile # NoTile =>
                  \A ft \in Range(bcfg.file_types) :
                      /\ results'[i].results[ft] \in
                            {"success", "cutout_failed", "save_failed", "error"}
                      /\ results'[i].results[ft] = "cutout_failed" => ~Usable(i, ft)
                      /\ (results'[i].results[ft] = "success") <=> (<<i, ft>> \in written')
       /\ bpc = "running" =>
            /\ bpc' \in {"running", "returned"}
            /\ pending' \cup DOMAIN results' = 1..Len(catalog)
            /\ pc'[1] \in {"process", "package"}
            /\ bpc' = "returned" =>
                  /\ pc'[1] = "package"
                  /\ DOMAIN results' = 1..Len(catalog)
                  /\ \A ft \in Range(bcfg.file_types) :
                        bstats'[ft].success + bstats'[ft].failed = Len(catalog)]_vars

\* C9's case: the task has completed although one source failed for one
\* product type and succeeded for another, and another source succeeded
C9_Witness ==
    /\ pc[1] = "done"
    /\ tasks[1].status = "completed"
    /\ bpc = "returned"
    /\ \E i, j \in CutRows :
          /\ i # j
          /\ \E ft, gt \in Range(bcfg.file_types) :
                /\ results[i].results[ft] \in {"cutout_failed", "save_failed", "error"}
                /\ results[i].results[gt] = "success"
                /\ results[j].results[ft] = "success"

\* the cache key of row i of task t for a file type
LegacyKey(t, i, ft) ==
    generate_source_cache_key(lcatalog[t][i].ra, lcatalog[t][i].dec, LegacyConfig.size,
                              LegacyConfig.instrument, ft, LegacyConfig.band)

\* the name of the band-cache file of row i of task t for a file type
LegacyName(t, i, ft) ==
    build_unified_filename(lcatalog[t][i].id, ft, LegacyConfig.instrument,
                           LegacyConfig.band)

\* C2: if a first task has extracted a fingerprint successfully, a second
\* task run afterwards that requests the same fingerprint does not hand it to
\* process_catalog and delivers the same artifact from the cache.
C2_SecondRunUsesCache ==
    \A u, v \in LegacyTasks : u \in lprior[v] =>
        \A i \in DOMAIN lres[u], j \in 1..Len(lcatalog[v]) :
            \A ft \in Range(LegacyConfig.file_types) :
                (lres[u][i][ft] = "success" /\ LegacyKey(u, i, ft) = LegacyKey(v, j, ft)) =>
                    /\ j \notin DOMAIN lres[v]
                    /\ ltasks[v].status = "completed" =>
                          \E n \in DOMAIN ldelivered[v] :
                              ldelivered[v][n] = Artifact(lcatalog[u][i], ft)

\* C3: re-running a batch of which every requested (target, instrument,
\* product type, band) has a file in the permanent cache hands no source to
\* process_catalog and reports every source as served from the cache:
\* permanent_cached equals total_sources and new_sources is 0.
C3_AllCachedRunExtractsNothing ==
    \A t \in LegacyTasks : lallperm[t] =>
        /\ lscan[t].sources_to_process = {}
        /\ DOMAIN lres[t] = {}
        /\ ltasks[t].status = "completed" =>
              /\ lstats[t].permanent_cached = lstats[t].total_sources
              /\ lstats[t].new_sources = 0

\* C4: when the extraction of a (source, product type) fails, no file for it
\* is written into a cache tier: every copy into the band cache made for a row
\* that process_catalog worked on is the copy of a successful extraction of
\* that row.
C4_FailedExtractionNotCached ==
    \A w \in pwrites :
        w.row \in DOMAIN lres[w.task] => lres[w.task][w.row][w.ft] = "success"

\* C6: after a task has newly extracted a valid artifact for a fingerprint,
\* the artifact is stored in both cache tiers: under its cache key in CACHE_DIR
\* and under its unified name in the band directory.
C6_StoredInBothTiers ==
    \A t \in LegacyTasks : ltasks[t].status = "completed" =>
        \A i \in DOMAIN lres[t] : \A ft \in Range(LegacyConfig.file_types) :
            lres[t][i][ft] = "success" =>
                /\ LegacyKey(t, i, ft) \in DOMAIN lcache
                /\ LegacyName(t, i, ft) \in DOMAIN pcache

\* C7: once a file exists at a band-cache path no later task overwrites or
\* changes it, also when the existence test and the copy of two tasks
\* interleave.
C7_BandCacheWriteOnce ==
    [][\A n \in DOMAIN pcache : n \in DOMAIN pcache' /\ pcache'[n] = pcache[n]]_vars

\* C8: if the cache check reports a hit but the cached file cannot be read or
\* copied, the task falls through to extracting the fingerprint anew, so the
\* artifact is still delivered.
C8_UnreadableHitFallsThrough ==
    \A t \in LegacyTasks : ltasks[t].status = "completed" =>
        \A h \in lscan[t].cached_sources_info :
            ~lcache[h.cache_file].readable =>
                /\ h.source_index \in DOMAIN lres[t]
                /\ LegacyName(t, h.source_index, h.file_type) \in DOMAIN ldelivered[t]

\* the rows mapped to a tile whose directory has no file of a requested
\* instrument
NoInstrumentRows ==
    { i \in 1..Len(catalog) :
        /\ catalog[i].tile \in DOMAIN mer
        /\ \A f \in mer[catalog[i].tile] : f.dir \notin bcfg.instruments }

\* the collected rows that count as failed for a file type
FailedRows(ft) ==
    { i \in DOMAIN results : results[i].crashed \/ results[i].results[ft] # "success" }

\* C11: when the tile of a set of sources has no file of the requested
\* instrument, process_catalog records each of them, for every requested
\* product type, as a failed cutout with the reason "not found", writes nothing
\* for it, and the product type's failed count is exactly the number of failed
\* sources, these included.
C11_NoInstrumentFileCounted ==
    bpc \in {"running", "returned"} =>
        \A ft \in Range(bcfg.file_types) :
            /\ \A i \in NoInstrumentRows \cap DOMAIN results :
                  /\ ~results[i].crashed =>
                        /\ results[i].results[ft] = "cutout_failed"
                        /\ CutoutError(catalog[i].tile, ft, bcfg.instruments,
                                       bcfg.bands, bcfg.skip_nan) = "not_found"
                  /\ i \in FailedRows(ft)
                  /\ <<i, ft>> \notin written
            /\ bstats[ft].failed = Cardinality(FailedRows(ft))
            /\ bpc = "returned" => NoInstrumentRows \subseteq DOMAIN results

\* C11's case: process_catalog has returned; two sources lie in a tile without
\* a file of the instrument and were reported, another source was cut out
C11_Witness ==
    /\ bpc = "returned"
    /\ \E i, j \in NoInstrumentRows :
          i # j /\ ~results[i].crashed /\ ~results[j].crashed
    /\ \E ft \in Range(bcfg.file_types) : bstats[ft].failed >= 2

\* C12: for a catalog of 3 rows that lie in the same tile, with one
\* instrument, one product type and every backing file present,
\* process_catalog_by_tile forms exactly one tile group and returns success 3
\* and failed 0 for the product type.
C12_OneTileGroupThreeSuccesses ==
    ( /\ tpc = "returned"
      /\ Len(tcatalog) = 3
      /\ Len(tcfg.file_types) = 1
      /\ Cardinality(tcfg.instruments) = 1
      /\ \E tile \in DOMAIN mer :
            /\ \A i \in 1..3 :
                  query_tile_id(tcatalog[i].ra, tcatalog[i].dec, TileIndex) = tile
            /\ \E f \in mer[tile] :
                  /\ f.dir \in tcfg.instruments
                  /\ f.tag = tcfg.file_types[1]
                  /\ f.q = "ok" )
    => /\ Cardinality(DOMAIN tile_groups) = 1
       /\ tstats[tcfg.file_types[1]].success = 3
       /\ tstats[tcfg.file_types[1]].failed = 0

\* the rows of the index whose bounding box, widened by the tolerance,
\* contains the position asked for
QueryMatched ==
    { k \in 1..Len(qindex) :
        /\ qindex[k].RA_MIN - tolerance <= qpos.ra
        /\ qpos.ra <= qindex[k].RA_MAX + tolerance
        /\ qindex[k].DEC_MIN - tolerance <= qpos.dec
        /\ qpos.dec <= qindex[k].DEC_MAX + tolerance }

\* C13: query_tile_id returns None when no widened bounding box contains the
\* position; when several do it returns a tile whose center has the smallest
\* separation; and it returns the same for every order of the rows of the
\* index, also on the common boundary of two tiles.
C13_LookupOrderIndependent ==
    qres # "pending" =>
        /\ QueryMatched = {} => qres[1] = NoTile
        /\ QueryMatched # {} =>
              \E k \in QueryMatched :
                  /\ qindex[k].TILE_ID = qres[1]
                  /\ \A j \in QueryMatched :
                        Separation(qpos.ra, qpos.dec, qindex[k])
                            <= Separation(qpos.ra, qpos.dec, qindex[j])
        /\ \A p \in Permutations(1..Len(qindex)) :
              query_tile_id(qpos.ra, qpos.dec, [i \in 1..Len(qindex) |-> qindex[p[i]]])
                  = qres[1]

\* the rows of the index whose bounding box has the position strictly inside
QueryStrictlyInside ==
    { k \in 1..Len(qindex) :
        /\ qindex[k].RA_MIN < qpos.ra
        /\ qpos.ra < qindex[k].RA_MAX
        /\ qindex[k].DEC_MIN < qpos.dec
        /\ qpos.dec < qindex[k].DEC_MAX }

\* the rows of the index whose bounding box has the position inside or on
\* its boundary
QueryInside ==
    { k \in 1..Len(qindex) :
        /\ qindex[k].RA_MIN <= qpos.ra
        /\ qpos.ra <= qindex[k].RA_MAX
        /\ qindex[k].DEC_MIN <= qpos.dec
        /\ qpos.dec <= qindex[k].DEC_MAX }

\* C14: for a position strictly inside the bounding box of one tile and in
\* the bounding box of no other, query_tile_id with its default tolerance
\* returns that tile's id, whatever the other tiles of the index are.
C14_InsideOneTileReturnsIt ==
    qres # "pending" =>
        \A k \in QueryStrictlyInside :
            QueryInside = {k} => qres[1] = qindex[k].TILE_ID

\* C15: once cancel_task(id) has returned True the status of the task is
\* 'cancelled' in every later state; the executor thread of the task never
\* sets it to processing, completed or failed.
C15_CancelledStaysCancelled ==
    \A id \in cancelled_ok : tasks[id].status = "cancelled"

\* C16: in every reachable state of a task registry, that of TaskProcessor
\* and that of the legacy service, the status of every task is one of queued,
\* processing, completed, failed, cancelled.
C16_StatusInEnum ==
    /\ \A id \in DOMAIN tasks : tasks[id].status \in TaskStatus
    /\ \A t \in LegacyTasks : ltasks[t].status \in TaskStatus

RECURSIVE TotalOf(_, _, _)
TotalOf(stats, S, field) ==
    IF S = {} THEN 0
    ELSE LET ft == CHOOSE x \in S : TRUE
         IN  stats[ft][field] + TotalOf(stats, S \ {ft}, field)

\* C18: when TaskExecutor has brought a task to completed after a run of
\* process_catalog, the stats published with the status carry the counts of
\* the batch: new_sources is the number of successful extractions and errors
\* the number of failed ones, summed over the product types.
C18_PublishedStatsCarryCounts ==
    (1 \in DOMAIN tasks /\ tasks[1].status = "completed" /\ bpc = "returned") =>
        /\ tasks[1].stats[1].new_sources = TotalOf(bstats, DOMAIN bstats, "success")
        /\ tasks[1].stats[1].errors = TotalOf(bstats, DOMAIN bstats, "failed")

\* C19: every list of failure samples stays within a fixed cap, however many
\* requests fail: the 'errors' list process_catalog keeps per file type, the
\* 'failed_targets' list of the published statistics of a task, and the
\* 'failed_targets' list process_task fills in its copy loop; the cap is the
\* one the code has for the first list, errors_cap.
C19_FailureSamplesCapped ==
    /\ \A ft \in DOMAIN bstats : Len(bstats[ft].errors) <= errors_cap
    /\ \A id \in DOMAIN tasks :
          \A k \in DOMAIN tasks[id].stats :
              Len(tasks[id].stats[k].failed_targets) <= errors_cap
    /\ pfailed <= errors_cap

\* C20: when a cutout cannot be written to the output location (save_cutouts
\* returns False and the row is reported 'save_failed'), the task does not
\* end 'completed'.
C20_UnwritableOutputFailsTask ==
    (\E i \in DOMAIN results :
        /\ ~results[i].crashed
        /\ \E ft \in Range(bcfg.file_types) : results[i].results[ft] = "save_failed")
    => \A id \in DOMAIN tasks : tasks[id].status # "completed"

\* C21: when the task's catalog file has more rows than max_catalog_rows and
\* its columns are found, loading it keeps exactly the first
\* max_catalog_rows rows, publishes the truncation notice in the task's
\* message, leaves the task in 'processing' and goes on to the extraction;
\* the rows process_catalog has worked on when it returns are those rows.
C21_TruncatesWithNotice ==
    [][ /\ (pc[1] = "load" /\ pc'[1] = "process" /\ Len(catalog) > max_catalog_rows) =>
              /\ catalog' = SubSeq(catalog, 1, max_catalog_rows)
              /\ xstats'[1].total_sources = max_catalog_rows
              /\ tasks'[1].message = "truncated"
              /\ tasks'[1].status = "processing"
        /\ (1 \in DOMAIN tasks' /\ tasks'[1].message = "truncated") =>
              /\ Len(catalog') = max_catalog_rows
              /\ bpc' = "returned" => DOMAIN results' = 1..max_catalog_rows
      ]_vars

C21_Witness ==
    /\ 1 \in DOMAIN tasks
    /\ tasks[1].status = "completed"
    /\ tasks[1].message = "truncated"
    /\ DOMAIN results = 1..max_catalog_rows

\* C22: for every product type and every name the archive gives to a mosaic
\* of that type, _parse_filename called with that type returns (T, T) when
\* one piece T is left after the pattern is stripped, and otherwise the first
\* piece with the remaining pieces joined by '-'.
C22_ParseFilename ==
    (call_ret # "pending" /\ call_args.file_type = call_args.product) =>
        call_ret[1] = IF call_args.band = << >>
                      THEN <<call_args.code, <<call_args.code>> >>
                      ELSE <<call_args.code, call_args.band>>

C22_Witness ==
    /\ call_ret # "pending"
    /\ call_args.file_type = call_args.product
    /\ call_args.product = "RMS"
    /\ Len(call_args.band) = 2

\* C23: every file find_files returns for a file type is a file of that
\* product type, with or without a band filter.
C23_FoundFilesCarryType ==
    call_ret # "pending" =>
        \A e \in call_ret[1] : e.file.product = call_args.file_type

EffectiveBand(request) == IF request.band = NoBand THEN "VIS" ELSE request.band

C25_PsfStampExact ==
    call_ret # "pending" =>
        LET r == call_ret[1]
            s == call_args.stmpsize
        IN  /\ r.success =>
                  /\ r.rows = s /\ r.cols = s
                  /\ 0 <= r.y_min /\ r.y_min + s <= call_args.shape[1]
                  /\ 0 <= r.x_min /\ r.x_min + s <= call_args.shape[2]
            /\ ~r.success => r.error # "none"
            /\ (s = 0 \/ s > call_args.shape[1] \/ s > call_args.shape[2]) => ~r.success

\* a stamp that was moved back inside the image
C25_Witness ==
    /\ call_ret # "pending"
    /\ call_ret[1].success
    /\ call_args.stmpsize = 3
    /\ call_args.shape = <<4, 3>>
    /\ call_args.x_center2 = 2 * MaxPsfDim + 2
    /\ call_ret[1].x_min = 0

\* C26: a task submitted without a band runs with the band filter ['VIS']:
\* the VIS mosaic of the tile is found for it.
C26_MissingBandDefaultsToVis ==
    (call_ret # "pending" /\ call_args.form_band = NoBand) =>
        /\ call_ret[1].bands = {<<"VIS">>}
        /\ call_args.file.code = "VIS" => call_ret[1].found # {}

\* the first name of the alias list that is a column, given that one is
FirstAlias(cols, aliases, name) ==
    \E i \in 1..Len(aliases) :
        /\ aliases[i] = name
        /\ name \in cols
        /\ \A j \in 1..(i-1) : aliases[j] \notin cols

\* C27: once the catalog is read, _detect_column has given the configured
\* column when the catalog has it and else the first alias that is a column;
\* when a coordinate has neither, the task goes to 'failed' and
\* process_catalog is never started.
C27_DetectColumn ==
    xcols[1] # {} =>
        LET ra_found == "RA" \in xcols[1] \/ \E i \in 1..Len(RaAliases) : RaAliases[i] \in xcols[1]
            dec_found == "DEC" \in xcols[1] \/ \E i \in 1..Len(DecAliases) : DecAliases[i] \in xcols[1]
        IN  /\ ("RA" \in xcols[1]) => xconfig[1].ra_col = "RA"
            /\ (ra_found /\ "RA" \notin xcols[1]) =>
                  FirstAlias(xcols[1], RaAliases, xconfig[1].ra_col)
            /\ (ra_found /\ "DEC" \in xcols[1]) => xconfig[1].dec_col = "DEC"
            /\ (ra_found /\ dec_found /\ "DEC" \notin xcols[1]) =>
                  FirstAlias(xcols[1], DecAliases, xconfig[1].dec_col)
            /\ ~(ra_found /\ dec_found) =>
                  /\ pc[1] \in {"except", "done"}
                  /\ pc[1] = "done" => tasks[1].status = "failed"
                  /\ bpc = "idle" /\ results = << >> /\ written = {}

\* a catalog with several aliases of RA and of DEC has been worked on
C27_Witness ==
    /\ xcols[1] = {"Ra", "RA_2", "ra", "DECLINATION", "dec"}
    /\ xconfig[1] = [ra_col |-> "RA_2", dec_col |-> "dec"]
    /\ tasks[1].status = "completed"

\* C28: a task that create_task has put into the registry stays in it, and
\* every call of handle_get_cutout_status for its id returns success with
\* the status the task has at that moment.
C28_CreatedTaskStaysVisible ==
    [][ \A id \in DOMAIN tasks :
            /\ id \in DOMAIN tasks'
            /\ (<<call_args, call_ret>>' # <<call_args, call_ret>> /\ call_args' = <<id>>) =>
                  /\ call_ret'[1].success
                  /\ call_ret'[1].status = tasks'[id].status
      ]_vars

C28_Witness ==
    /\ call_ret # "pending"
    /\ call_args = <<1>>
    /\ call_ret[1].success
    /\ call_ret[1].status = "processing"
    /\ tasks[1].status = "failed"

\* C29: handle_cutout_single answers success exactly when a file of at least
\* one requested file type was cut out and saved; the success and failed
\* counts of its summary add up to the number of distinct requested file
\* types; for a position in no tile it answers success = false and nothing
\* is cut out.
C29_SingleCutoutAnswer ==
    call_ret # "pending" =>
        LET r == call_ret[1] IN
        /\ r.success <=> written # {}
        /\ r.cutout_files = { w[2] : w \in written }
        /\ r.has_summary =>
              r.summary.success + r.summary.failed
                  = Cardinality(Range(call_args.file_types))
        /\ query_tile_id(call_args.ra, call_args.dec, TileIndex) = NoTile =>
              /\ ~r.success
              /\ r.results = << >>
              /\ written = {}

C29_Witness ==
    /\ call_ret # "pending"
    /\ call_args.file_types = <<"BGSUB", "RMS", "BGSUB">>
    /\ call_ret[1].success
    /\ call_ret[1].summary.success = 1
    /\ call_ret[1].summary.failed = 1

\* the target lies within size/2 pixels of an edge of the image: on no axis
\* more than size/2 pixels beyond the image, and on some axis at most size/2
\* pixels from the outer side of the first or of the last pixel
NearEdge(a) ==
    /\ \A i \in 1..2 :
          /\ a.pos4[i] >= -2 - 2 * a.size[i]
          /\ a.pos4[i] <= 4 * a.img.shape[i] - 2 + 2 * a.size[i]
    /\ \E i \in 1..2 :
          \/ a.pos4[i] <= -2 + 2 * a.size[i]
          \/ a.pos4[i] >= 4 * a.img.shape[i] - 2 - 2 * a.size[i]

\* the window of exactly the requested size: the pixels of the image where
\* the window lies on it, fill_value elsewhere
PaddedWindow(a, r) ==
    LET mn == IndicesMin(a.pos4, a.size)
    IN  /\ r.success
        /\ r.data.shape = a.size
        /\ \A rc \in (0..(a.size[1] - 1)) \X (0..(a.size[2] - 1)) :
              LET y == mn[1] + rc[1]
                  x == mn[2] + rc[2]
              IN  r.data.pix[rc] =
                    IF y >= 0 /\ y < a.img.shape[1] /\ x >= 0 /\ x < a.img.shape[2]
                    THEN ImagePixel(a.img, y, x)
                    ELSE a.fill_value

CenterReachesImage(a) ==
    \A i \in 1..2 :
        /\ a.pos4[i] > -(2 * a.size[i])
        /\ a.pos4[i] <= 4 * (a.img.shape[i] - 1) + 2 * a.size[i]

C31_WritesUnderLock == \A w \in wlog : w[3]

C33_FinalEntriesComplete ==
    \A id \in DOMAIN tasks :
        /\ tasks[id].status = "completed" =>
              /\ tasks[id].progress = 100
              /\ tasks[id].zip_path
        /\ tasks[id].status \in {"completed", "failed"} => tasks[id].end_time

C33_Witness ==
    /\ 1 \in DOMAIN tasks
    /\ tasks[1].status = "failed"
    /\ 2 \in DOMAIN tasks
    /\ 2 \in cancelled_ok
    /\ tasks[2].status = "completed"
    /\ call_args = <<2, "download">>
    /\ call_ret = <<[code |-> 200, error |-> "none"]>>

C35_EnvelopeConsistent ==
    call_ret # "pending" =>
        LET r == call_ret[1]
        IN  /\ r.success => (r.data # NoValue /\ r.error = NoValue)
            /\ ~r.success => (r.data = NoValue /\ r.error # NoValue)

\* C36: from the moment a task is processing until it has a final status,
\* the progress published for it never decreases: in the registry of
\* TaskProcessor and in the tasks of the legacy process_task.
C36_ProgressNeverDecreases ==
    [][ /\ \A id \in DOMAIN tasks :
              (id \in DOMAIN tasks' /\ tasks[id].status = "processing")
                  => tasks'[id].progress >= tasks[id].progress
        /\ (ppc # "queued" /\ pvalue # NoProgress /\ pvalue' # NoProgress)
              => pvalue' >= pvalue ]_vars

\* C37: every task created by create_task reaches status completed or failed
\* in the end, the steps of its executor thread returning or raising, and
\* keeps that status from then on, whether or not cancel_task is called in
\* between.
C37_TasksReachFinalStatus ==
    /\ \A t \in TaskIds :
          (t \in DOMAIN tasks)
              ~> (t \in DOMAIN tasks /\ tasks[t].status \in {"completed", "failed"})
    /\ [][\A t \in DOMAIN tasks :
              tasks[t].status \in {"completed", "failed"}
                  => tasks'[t].status = tasks[t].status]_vars

\* C37's case: task 1 was cancelled on its way and is failed with its thread
\* at the end, task 2 is completed without a cancel
C37_Witness ==
    /\ DOMAIN tasks = {1, 2}
    /\ 1 \in cancelled_ok
    /\ pc[1] = "done"
    /\ tasks[1].status = "failed"
    /\ 2 \notin cancelled_ok
    /\ pc[2] = "done"
    /\ tasks[2].status = "completed"

\* C38: cancel_task returns False and changes nothing in the registry when
\* the task id is unknown or the task is completed or failed; otherwise it
\* returns True and changes only the status and the message of that task:
\* its other fields and all other tasks stay as they are.
C38_CancelFrame ==
    [][\A task_id \in 1..(NTasks + 1) :
          cancel_task_call(task_id) =>
            IF task_id \notin DOMAIN tasks
               \/ tasks[task_id].status \in {"completed", "failed"}
            THEN /\ call_ret' = <<FALSE>>
                 /\ UNCHANGED <<tasks, pc, xstats, zipOnDisk, xcols, xconfig>>
            ELSE /\ call_ret' = <<TRUE>>
                 /\ DOMAIN tasks' = DOMAIN tasks
                 /\ \A o \in DOMAIN tasks \ {task_id} : tasks'[o] = tasks[o]
                 /\ tasks'[task_id] =
                        [tasks[task_id] EXCEPT !.status = tasks'[task_id].status,
                                               !.message = tasks'[task_id].message]
                 /\ UNCHANGED <<pc, xstats, zipOnDisk, xcols, xconfig>>]_vars

\* C38's case: the cancel of the running task 1 was accepted while task 2 is
\* completed
C38_Witness ==
    /\ call_args = <<1, "cancel">>
    /\ call_ret = <<TRUE>>
    /\ DOMAIN tasks = {1, 2}
    /\ tasks[1].status = "cancelled"
    /\ tasks[1].start_time
    /\ ~tasks[1].end_time
    /\ tasks[2].status = "completed"

\* C39: in the legacy process_task a file of the band cache or of
\* temp_process_dir is attributed only to the source for whose target id it
\* was made: the file of the id 123 is never matched to the source with the
\* id 12, whose id is merely a part of the file's name.
C39_FilesMatchTheirOwnSource ==
    \A t \in LegacyTasks :
        /\ \A e \in lscan[t].permanent_cached_files : e.cache_file[1] = e.target_id
        /\ lpc[t] \in {"copy", "backup"} =>
              \A k \in 1..Len(lpos[t].todo) :
                  lpos[t].todo[k][2] = lcatalog[t][lpos[t].i].id

\* C40: in process_catalog every source counted as success for a product
\* type has an output file of its own: no two rows write the same output
\* path, so when the batch has returned the number of output files of a
\* product type is its success count, also for rows with equal ids or with
\* equal positions and no id.
C40_OneFilePerSuccess ==
    bpc = "returned" =>
        \A ft \in Range(bcfg.file_types) :
            Cardinality({ p \in DOMAIN outFiles : p[1] = ft }) = bstats[ft].success

====
